---------------------------- MODULE Spec2Model ----------------------------
(***************************************************************************)
(* A model of the Digital Drop Receiver of svxlink (src/svxlink/trx/      *)
(* Ddr.cpp): FIR decimators, decimator cascades, the frequency translator, *)
(* the two channelizers, the demodulators, the channel and the DDR         *)
(* registry with its tuner binding; and of two parts of its location       *)
(* information service (src/locationinfo): the gpsd client of              *)
(* GpsdTcpClient.cpp and the singleton and the NMEA line buffer of         *)
(* LocationInfo.cpp.                                                       *)
(*                                                                         *)
(* Samples are symbolic.  A tuner sample is the positive integer that is   *)
(* its position in the stream, the zero sample is 0, and every arithmetic  *)
(* result is the term of the operation that made it: a FIR sum is the      *)
(* record of the working coefficients and the delay line it was computed   *)
(* from, a translated sample the record of the sample and the lookup-table *)
(* entry that multiplied it.                                               *)
(***************************************************************************)
EXTENDS Integers, Sequences, FiniteSets, TLC

VARIABLES
  d_dec,      \* decimator harness: the Decimator<T> object
  d_out,      \* decimator harness: the caller's output vector
  d_in,       \* decimator harness: the input of the last decimate call
  d_fed,      \* decimator harness: number of samples fed so far
  d_before,   \* decimator harness: the output vector before the last call
  d_gain,     \* decimator harness: the last setGain, if any
  d_pc,       \* decimator harness: "idle", "done" (decimate returned), "abort"
  m_pool,     \* cascade harness: the decimators, by name
  m_ms,       \* cascade harness: the DecimatorMS object
  m_out,      \* cascade harness: the caller's output vector
  m_in,       \* cascade harness: the input of the last decimate call
  m_fed,      \* cascade harness: number of samples fed so far
  m_pc,       \* cascade harness: "idle", "done", "abort"
  t_tr,       \* translator harness: the Translate object
  t_out,      \* translator harness: the caller's output vector
  t_in,       \* translator harness: the input of the last iq_received call
  t_fed,      \* translator harness: number of samples fed so far
  t_K,        \* translator harness: samples processed since the last setOffset
  t_prev,     \* translator harness: when setOffset was the last call, the
              \* offset and the phase index it found
  t_f,        \* translator harness: the offset of the last setOffset
  t_pc,       \* translator harness: "idle", "done" (iq_received returned)
  z_ch,       \* channelizer harness: the Channelizer object
  z_bw,       \* channelizer harness: the bandwidth of the last setBw call
  z_out,      \* channelizer harness: the caller's output vector
  z_in,       \* channelizer harness: the input of the last iq_received call
  z_pre,      \* channelizer harness: the preDemod events of the last call
  z_fed,      \* channelizer harness: number of samples fed so far
  z_calls,    \* channelizer harness: number of iq_received calls so far
  z_pc,       \* channelizer harness: "idle", "done", "abort"
  c_ch,       \* channel harness: the Channel object
  c_op,       \* channel harness: "iq_received" when that was the last call
  s_last,     \* modulation harness: the last call, and whether it repeated
              \* the setModulation call before it
  c_mod,      \* channel harness: the modulation of the last setModulation
  c_in,       \* channel harness: the batch of the last iq_received call
  c_pre,      \* channel harness: the preDemod events of the last call
  c_sink,     \* channel harness: the vectors the last call wrote to the sink
  c_fed,      \* channel harness: number of samples fed so far
  c_calls,    \* channel harness: number of iq_received calls so far
  c_pc,       \* channel harness: "new", "ready", "failed", "abort"
  ddr,        \* the Ddr objects, by identity
  ddr_map,    \* Ddr::ddr_map: name -> identity of a Ddr object, 0 = no entry
  rtl,        \* the tuner (WbRxRtlSdr): rate, centre, listeners, connections
  msgs,       \* the diagnostics the last operation wrote, per Ddr object
  emitted,    \* preDemod events and sink writes of the last batch, per Ddr
  last,       \* the last operation, and whether the channel of each Ddr
              \* was enabled when that operation called its tunerFqChanged
  fed,        \* number of tuner samples delivered so far
  pc,         \* "run", "abort" (the process has stopped), "off"
  g_cl,       \* gpsd client: the connection and the two timers
  g_last,     \* gpsd client: the last handler run and what it did
  g_attempts, \* gpsd client: number of connect() calls so far (saturating)
  g_polls,    \* gpsd client: number of pollTimeout calls so far (saturating)
  l_instance, \* LocationInfo::_instance
  l_last,     \* location info: the last operation and what it returned
  n_input,    \* location info: the characters received so far
  n_handled   \* location info: the lines passed to handleNmea so far

decVars == <<d_dec, d_out, d_in, d_fed, d_before, d_gain, d_pc>>
msVars == <<m_pool, m_ms, m_out, m_in, m_fed, m_pc>>

trVars == <<t_tr, t_out, t_in, t_fed, t_K, t_prev, t_f, t_pc>>

czVars == <<z_ch, z_bw, z_out, z_in, z_pre, z_fed, z_calls, z_pc>>

chVars == <<c_ch, c_op, c_mod, c_in, c_pre, c_sink, c_fed, c_calls, c_pc>>

ddrVars == <<ddr, ddr_map, rtl, msgs, emitted, last, fed, pc>>

modVars == <<s_last>>

gpsVars == <<g_cl, g_last, g_attempts, g_polls>>

locVars == <<l_instance, l_last, n_input, n_handled>>

vars ==
  <<decVars, msVars, trVars, czVars, chVars, ddrVars, modVars, gpsVars, locVars>>

-----------------------------------------------------------------------------
(* Bounds of the model *)

\* largest decimation factor of the decimator harness
MaxDecFact == 3
\* a decimator of factor M has between M and M + TapsExtra taps
TapsExtra == 1
\* longest input batch of the decimator harness
MaxLen == 6
\* samples fed to the decimator harness in total
MaxFed == 9
\* largest decimation factor of a stage of the cascade harness
MsMaxFact == 2
\* groups of decFact() samples fed to the cascade harness in total
MsMaxGroups == 2
\* longest input batch of the translator harness
TrMaxLen == 4
\* samples fed to the translator harness in total
TrMaxFed == 10
\* iq_received calls on the channelizer harness in total
CzMaxCalls == 2
\* longest batch of the channelizer harness, in groups of decFact() samples
CzMaxGroups == 2
\* samples fed to the channel harness in total, in audio samples (a batch
\* of g audio samples is g * tunerRate / 16000 tuner samples)
ChMaxAudio == 2

\* most audio samples the batches delivered by the tuner make
IqMaxAudio == 2

-----------------------------------------------------------------------------
(* Sequences *)

\* in[from .. from+n-1]
Slice(s, from, n) == [i \in 1..n |-> s[from + i - 1]]

\* the samples of the stream at positions first+1 .. first+n
Stream(first, n) == [i \in 1..n |-> first + i]

-----------------------------------------------------------------------------
(* Decimator<T>, Ddr.cpp:103-185 *)

\* a coefficient table of the given length (DdrFilterCoeffs.h): its t-th
\* coefficient is the pair of the table's name and t
CoeffTable(name, taps) == [t \in 1..taps |-> <<name, t>>]

\* *it *= pow(10.0, gain_adjust / 20.0)
Scale(c, gain_adjust) == [c |-> c, g |-> gain_adjust]

\* Decimator(void)
DecimatorDefault ==
  [dec_fact |-> 0, taps |-> 0, p_Z |-> <<>>, set_coeff |-> <<>>, coeff |-> <<>>]

\* setDecimatorParams(dec_fact, coeff, taps): the delay line is reallocated
\* and zeroed
SetDecimatorParams_grown(d, dec_fact, coeff, taps) ==
  [dec_fact  |-> dec_fact,
   taps      |-> taps,
   p_Z       |-> [t \in 1..(Len(d.p_Z) + taps) |-> 0],
   set_coeff |-> Slice(coeff, 1, taps),
   coeff     |-> Slice(coeff, 1, taps)]
SetDecimatorParams(d, dec_fact, coeff, taps) ==
  [dec_fact  |-> dec_fact,
   taps      |-> taps,
   p_Z       |-> [t \in 1..taps |-> 0],
   set_coeff |-> Slice(coeff, 1, taps),
   coeff     |-> Slice(coeff, 1, taps)]

\* Decimator(dec_fact, coeff, taps)
DecimatorNew(dec_fact, coeff, taps) ==
  SetDecimatorParams(DecimatorDefault, dec_fact, coeff, taps)

\* setGain(gain_adjust): the working coefficients are rebuilt from the base
\* coefficients
SetGain_flushing(d, gain_adjust) ==
  [d EXCEPT !.coeff = [t \in 1..Len(d.set_coeff) |->
                         Scale(d.set_coeff[t], gain_adjust)],
            !.p_Z = [t \in 1..d.taps |-> 0]]
SetGain(d, gain_adjust) ==
  [d EXCEPT !.coeff = [t \in 1..Len(d.set_coeff) |->
                         Scale(d.set_coeff[t], gain_adjust)]]

\* the FIR sum of line 168-172: sum of coeff[tap] * p_Z[tap]
FirSum(coeff, p_Z) == [k |-> coeff, z |-> p_Z]

\* lines 158-165: the delay line is shifted up by dec_fact (memmove) and
\* the next dec_fact samples are copied to its bottom, the first of them to
\* p_Z[dec_fact-1] and the last to p_Z[0] (tap t of the code is index t+1)
ShiftIn(d, chunk) ==
  [tap \in 1..d.dec_fact |-> chunk[d.dec_fact - tap + 1]]
    \o SubSeq(d.p_Z, 1, d.taps - d.dec_fact)

\* out.clear()
ClearOut_kept(out) == out
ClearOut(out) == <<>>

\* one turn of the while loop of lines 155-175, on the samples at input
\* positions pos .. pos+dec_fact-1 (0-based)
DecimateStep(d, out, in, pos) ==
  LET z == ShiftIn(d, SubSeq(in, pos + 1, pos + d.dec_fact))
  IN  [d |-> [d EXCEPT !.p_Z = z], out |-> Append(out, FirSum(d.coeff, z))]

\* the turns lo+1 .. hi of the while loop, one after the other.  The range
\* is halved, and the first half is evaluated (its dec_fact and the length
\* of its output are looked at) before the second half starts, so that the
\* evaluation does not nest one level per turn.
RECURSIVE DecimateLoop(_, _, _, _, _)
DecimateLoop(d, out, in, lo, hi) ==
  IF hi = lo \/ d.dec_fact < 0 \/ Len(out) < 0 THEN [d |-> d, out |-> out]
  ELSE IF hi = lo + 1 THEN DecimateStep(d, out, in, lo * d.dec_fact)
  ELSE LET mid == (lo + hi) \div 2
           r   == DecimateLoop(d, out, in, lo, mid)
       IN  DecimateLoop(r.d, r.out, in, mid, hi)

\* decimate(out, in): the asserts of lines 148-149, then the loop, which
\* after the first assert takes in.size() / dec_fact turns.  A factor of 0
\* (a default-constructed decimator) divides by zero in the first assert:
\* the call does not return.
Decimate_truncating(d, out, in) ==
  IF d.dec_fact = 0 THEN [d |-> d, out |-> out, abort |-> TRUE]
  ELSE [abort |-> FALSE,
        d     |-> DecimateLoop(d, ClearOut(out), in, 0, Len(in) \div d.dec_fact).d,
        out   |-> DecimateLoop(d, ClearOut(out), in, 0, Len(in) \div d.dec_fact).out]
Decimate(d, out, in) ==
  IF d.dec_fact = 0 THEN [d |-> d, out |-> out, abort |-> TRUE]
  ELSE IF Len(in) % d.dec_fact # 0 \/ d.taps < d.dec_fact
       THEN [d |-> d, out |-> out, abort |-> TRUE]
       ELSE LET r == DecimateLoop(d, ClearOut(out), in, 0,
                                  Len(in) \div d.dec_fact)
            IN  [d |-> r.d, out |-> r.out, abort |-> FALSE]

-----------------------------------------------------------------------------
(* DecimatorMS1 .. DecimatorMS5, Ddr.cpp:187-298.  A cascade holds        *)
(* references to decimators it does not own: here the names of decimators  *)
(* of a pool.  A run is the pool, the vector passed on and whether an      *)
(* assertion has stopped the program.                                      *)

\* one d.decimate(out, in) of a cascade: the stage named d of the pool
\* decimates the vector of run r into out; StageReturned is the run once
\* the call has returned x
StageReturned(r, d, x) ==
  [pool |-> [r.pool EXCEPT ![d] = x.d], out |-> x.out, abort |-> x.abort]

StageDecimate(r, d, out) ==
  IF r.abort THEN r
  ELSE StageReturned(r, d, Decimate(r.pool[d], out, r.out))

\* the arguments of decimate(out, in) as a run
RunOf(pool, in) == [pool |-> pool, out |-> in, abort |-> FALSE]

DecimatorMS1(d1) == [stages |-> 1, d1 |-> d1]
DecimatorMS2(d1, d2) == [stages |-> 2, d1 |-> d1, d2 |-> d2]
DecimatorMS3(d1, d2, d3) == [stages |-> 3, d1 |-> d1, d2 |-> d2, d3 |-> d3]
DecimatorMS4(d1, d2, d3, d4) ==
  [stages |-> 4, d1 |-> d1, d2 |-> d2, d3 |-> d3, d4 |-> d4]
DecimatorMS5(d1, d2, d3, d4, d5) ==
  [stages |-> 5, d1 |-> d1, d2 |-> d2, d3 |-> d3, d4 |-> d4, d5 |-> d5]

MS1decFact(pool, ms) == pool[ms.d1].dec_fact
MS2decFact(pool, ms) == pool[ms.d1].dec_fact * pool[ms.d2].dec_fact
MS3decFact(pool, ms) ==
  pool[ms.d1].dec_fact * pool[ms.d2].dec_fact * pool[ms.d3].dec_fact
MS4decFact(pool, ms) ==
  pool[ms.d1].dec_fact * pool[ms.d2].dec_fact * pool[ms.d3].dec_fact
    * pool[ms.d4].dec_fact
MS5decFact(pool, ms) ==
  pool[ms.d1].dec_fact * pool[ms.d2].dec_fact * pool[ms.d3].dec_fact
    * pool[ms.d4].dec_fact * pool[ms.d5].dec_fact

MS1decimate(pool, ms, out, in) ==
  StageDecimate(RunOf(pool, in), ms.d1, out)

MS2decimate(pool, ms, out, in) ==
  LET dec_samp1 == StageDecimate(RunOf(pool, in), ms.d1, <<>>)
  IN  StageDecimate(dec_samp1, ms.d2, out)

MS3decimate(pool, ms, out, in) ==
  LET dec_samp1 == StageDecimate(RunOf(pool, in), ms.d1, <<>>)
      dec_samp2 == StageDecimate(dec_samp1, ms.d2, <<>>)
  IN  StageDecimate(dec_samp2, ms.d3, out)

MS4decimate(pool, ms, out, in) ==
  LET dec_samp1 == StageDecimate(RunOf(pool, in), ms.d1, <<>>)
      dec_samp2 == StageDecimate(dec_samp1, ms.d2, <<>>)
      dec_samp3 == StageDecimate(dec_samp2, ms.d3, <<>>)
  IN  StageDecimate(dec_samp3, ms.d4, out)

MS5decimate_swapped(pool, ms, out, in) ==
  LET dec_samp1 == StageDecimate(RunOf(pool, in), ms.d1, <<>>)
      dec_samp2 == StageDecimate(dec_samp1, ms.d2, <<>>)
      dec_samp3 == StageDecimate(dec_samp2, ms.d4, <<>>)
      dec_samp4 == StageDecimate(dec_samp3, ms.d3, <<>>)
  IN  StageDecimate(dec_samp4, ms.d5, out)
MS5decimate(pool, ms, out, in) ==
  LET dec_samp1 == StageDecimate(RunOf(pool, in), ms.d1, <<>>)
      dec_samp2 == StageDecimate(dec_samp1, ms.d2, <<>>)
      dec_samp3 == StageDecimate(dec_samp2, ms.d3, <<>>)
      dec_samp4 == StageDecimate(dec_samp3, ms.d4, <<>>)
  IN  StageDecimate(dec_samp4, ms.d5, out)

\* the virtual calls ms->decFact() and ms->decimate(out, in)
MSdecFact(pool, ms) ==
  CASE ms.stages = 1 -> MS1decFact(pool, ms)
    [] ms.stages = 2 -> MS2decFact(pool, ms)
    [] ms.stages = 3 -> MS3decFact(pool, ms)
    [] ms.stages = 4 -> MS4decFact(pool, ms)
    [] ms.stages = 5 -> MS5decFact(pool, ms)

MSdecimate(pool, ms, out, in) ==
  CASE ms.stages = 1 -> MS1decimate(pool, ms, out, in)
    [] ms.stages = 2 -> MS2decimate(pool, ms, out, in)
    [] ms.stages = 3 -> MS3decimate(pool, ms, out, in)
    [] ms.stages = 4 -> MS4decimate(pool, ms, out, in)
    [] ms.stages = 5 -> MS5decimate(pool, ms, out, in)

-----------------------------------------------------------------------------
(* Translate, Ddr.cpp:539-612 *)

\* gcd(dividend, divisor), lines 603-611
RECURSIVE gcd(_, _)
gcd(dividend, divisor) ==
  LET reminder == dividend % divisor
  IN  IF reminder = 0 THEN divisor ELSE gcd(divisor, reminder)

\* abs(offset)
Abs(x) == IF x < 0 THEN -x ELSE x

\* exp(e) for e = (0, -2*pi*offset*i/samp_rate), lines 561-562: the unit
\* complex number of phase 2*pi*num/den
ExpLut(offset, i, samp_rate) == [num |-> -(offset * i), den |-> samp_rate]

\* *it * exp_lut[n], line 576
Mul(sample, e) == [s |-> sample, e |-> e]

\* the length of the lookup table, line 556
LutSize_nogcd(samp_rate, offset) == samp_rate \div Abs(offset)
LutSize(samp_rate, offset) == samp_rate \div gcd(samp_rate, Abs(offset))

\* the vector exp_lut.  The fill loop of lines 558-563 sets entry i, for
\* every i below the size, to ExpLut(offset, i, samp_rate): the vector is
\* kept as its size and the offset its entries were computed from, and an
\* entry is computed when it is read.  The cleared vector of line 550 has
\* size 0.
LutEmpty_one == [size |-> 1, offset |-> 0]
LutEmpty == [size |-> 0, offset |-> 0]
LutFilled(size, offset) == [size |-> size, offset |-> offset]
LutAt(t, i) == ExpLut(t.exp_lut.offset, i, t.samp_rate)

\* setOffset(offset), lines 548-564
setOffset_keepn(t, offset) ==
  IF offset = 0
    THEN [t EXCEPT !.exp_lut = LutEmpty]
    ELSE [t EXCEPT !.exp_lut = LutFilled(LutSize(t.samp_rate, offset), offset)]
setOffset(t, offset) ==
  IF offset = 0
    THEN [t EXCEPT !.n = 0, !.exp_lut = LutEmpty]
    ELSE [t EXCEPT !.n = 0,
                   !.exp_lut = LutFilled(LutSize(t.samp_rate, offset), offset)]

\* Translate(samp_rate, offset)
TranslateNew(samp_rate, offset) ==
  setOffset([samp_rate |-> samp_rate, exp_lut |-> LutEmpty, n |-> 0], offset)

\* if (++n == exp_lut.size()) n = 0, lines 577-580
NextN_early(n, size) == IF n + 2 >= size THEN 0 ELSE n + 1
NextN(n, size) == IF n + 1 = size THEN 0 ELSE n + 1

\* one turn of the loop of lines 574-581, on the sample at input position
\* pos (0-based)
TranslateStep(t, out, in, pos) ==
  [t   |-> [t EXCEPT !.n = NextN(t.n, t.exp_lut.size)],
   out |-> Append(out, Mul(in[pos + 1], LutAt(t, t.n)))]

\* the turns lo+1 .. hi of the loop, one after the other.  The range is
\* halved, and the first half is evaluated (its n and the length of its
\* output are looked at) before the second half starts, so that the
\* evaluation does not nest one level per turn.
RECURSIVE TranslateLoop(_, _, _, _, _)
TranslateLoop(t, out, in, lo, hi) ==
  IF hi = lo \/ t.n < 0 \/ Len(out) < 0 THEN [t |-> t, out |-> out]
  ELSE IF hi = lo + 1 THEN TranslateStep(t, out, in, lo)
  ELSE LET mid == (lo + hi) \div 2
           r   == TranslateLoop(t, out, in, lo, mid)
       IN  TranslateLoop(r.t, r.out, in, mid, hi)

\* Translate::iq_received(out, in), lines 566-587
TranslateIq(t, out, in) ==
  IF t.exp_lut.size > 0 THEN TranslateLoop(t, <<>>, in, 0, Len(in))
                        ELSE [t |-> t, out |-> in]

-----------------------------------------------------------------------------
(* Channelizer960 and Channelizer2400, Ddr.cpp:614-784.  A channelizer is *)
(* its tuner rate, its decimators by name and the pointer dec to the       *)
(* active cascade.                                                         *)

\* the null pointer, and a pointer that was never set
NullMS == [stages |-> 0]
WildMS == [stages |-> -1]

\* the tap count of a filter of decimation factor dec_fact.  The tables and
\* their lengths (coeff_*_cnt) are those of DdrFilterCoeffs.h; a table is
\* longer than the factor, and one tap more than the factor is the
\* shortest delay line that keeps samples from one output to the next.
Taps(dec_fact) == dec_fact + 1

\* a member Decimator<complex<float> > name(dec_fact, coeff, coeff_cnt)
Member(dec_fact, coeff) ==
  DecimatorNew(dec_fact, CoeffTable(coeff, Taps(dec_fact)), Taps(dec_fact))

\* the decimators of Channelizer960, lines 635-642
Pool960 ==
  [dec_960k_192k |-> Member(5, "coeff_dec_960k_192k"),
   dec_192k_64k  |-> Member(3, "coeff_dec_192k_64k"),
   dec_64k_32k   |-> Member(2, "coeff_dec_64k_32k"),
   dec_192k_48k  |-> Member(4, "coeff_dec_192k_48k"),
   dec_48k_16k   |-> Member(3, "coeff_dec_48k_16k"),
   ch_filt       |-> Member(1, "coeff_25k_channel"),
   ch_filt_narr  |-> Member(1, "coeff_12k5_channel"),
   ch_filt_6k    |-> Member(1, "coeff_ssb_channel")]

\* the decimators of Channelizer2400, lines 712-718
Pool2400 ==
  [dec_2400k_800k |-> Member(3, "coeff_dec_2400k_800k"),
   dec_800k_160k  |-> Member(5, "coeff_dec_800k_160k"),
   dec_160k_32k   |-> Member(5, "coeff_dec_160k_32k"),
   dec_32k_16k    |-> Member(2, "coeff_dec_32k_16k"),
   ch_filt        |-> Member(1, "coeff_25k_channel"),
   ch_filt_narr   |-> Member(1, "coeff_12k5_channel"),
   ch_filt_6k     |-> Member(1, "coeff_ssb_channel")]

Bandwidths == {"BW_WIDE", "BW_20K", "BW_10K", "BW_6K"}

\* the cascade that Channelizer960::setBw creates, lines 657-680; the null
\* pointer is left when no case matches
Cascade960_narrow(bw) ==
  CASE bw = "BW_WIDE" -> DecimatorMS1("dec_960k_192k")
    [] bw = "BW_20K"  -> DecimatorMS4("dec_960k_192k", "dec_192k_64k",
                                      "dec_64k_32k", "ch_filt")
    [] bw = "BW_10K"  -> DecimatorMS4("dec_960k_192k", "dec_192k_64k",
                                      "dec_48k_16k", "ch_filt_narr")
    [] bw = "BW_6K"   -> DecimatorMS4("dec_960k_192k", "dec_192k_48k",
                                      "dec_48k_16k", "ch_filt_6k")
    [] OTHER          -> NullMS
Cascade960(bw) ==
  CASE bw = "BW_WIDE" -> DecimatorMS1("dec_960k_192k")
    [] bw = "BW_20K"  -> DecimatorMS4("dec_960k_192k", "dec_192k_64k",
                                      "dec_64k_32k", "ch_filt")
    [] bw = "BW_10K"  -> DecimatorMS4("dec_960k_192k", "dec_192k_48k",
                                      "dec_48k_16k", "ch_filt_narr")
    [] bw = "BW_6K"   -> DecimatorMS4("dec_960k_192k", "dec_192k_48k",
                                      "dec_48k_16k", "ch_filt_6k")
    [] OTHER          -> NullMS

\* the cascade that Channelizer2400::setBw creates, lines 733-758
Cascade2400(bw) ==
  CASE bw = "BW_WIDE" -> DecimatorMS2("dec_2400k_800k", "dec_800k_160k")
    [] bw = "BW_20K"  -> DecimatorMS4("dec_2400k_800k", "dec_800k_160k",
                                      "dec_160k_32k", "ch_filt")
    [] bw = "BW_10K"  -> DecimatorMS5("dec_2400k_800k", "dec_800k_160k",
                                      "dec_160k_32k", "dec_32k_16k",
                                      "ch_filt_narr")
    [] bw = "BW_6K"   -> DecimatorMS5("dec_2400k_800k", "dec_800k_160k",
                                      "dec_160k_32k", "dec_32k_16k",
                                      "ch_filt_6k")
    [] OTHER          -> NullMS

\* setBw(bw) of either channelizer.  delete dec of a pointer that was never
\* set is undefined: wild tells whether the program survives it (the
\* pointer happened to be null) or stops.  The assert of lines 681 and 760
\* stops the program when no case matched.
ChSetBw_fresh(c, bw, wild) ==
  IF c.dec = WildMS /\ wild = "crash"
    THEN [c |-> c, abort |-> TRUE]
    ELSE LET ms == IF c.rate = 960000 THEN Cascade960(bw) ELSE Cascade2400(bw)
         IN  [c |-> [c EXCEPT !.dec = ms,
                              !.pool = IF c.rate = 960000 THEN Pool960
                                       ELSE Pool2400],
              abort |-> (ms = NullMS)]
ChSetBw(c, bw, wild) ==
  IF c.dec = WildMS /\ wild = "crash"
    THEN [c |-> c, abort |-> TRUE]
    ELSE LET ms == IF c.rate = 960000 THEN Cascade960(bw) ELSE Cascade2400(bw)
         IN  [c |-> [c EXCEPT !.dec = ms], abort |-> (ms = NullMS)]

\* Channelizer960(void), lines 634-646: dec(0), then setBw(BW_20K)
Channelizer960New ==
  ChSetBw([rate |-> 960000, pool |-> Pool960, dec |-> NullMS], "BW_20K", "null")

\* Channelizer2400(void), lines 711-721: dec is not initialised, then
\* setBw(BW_20K)
Channelizer2400New(wild) ==
  ChSetBw([rate |-> 2400000, pool |-> Pool2400, dec |-> WildMS], "BW_20K", wild)

\* chSampRate(), lines 684-687 and 763-766
ChSampRate(c) == c.rate \div MSdecFact(c.pool, c.dec)

\* iq_received(out, in), lines 689-694 and 768-773: the cascade runs, then
\* preDemod(out) is emitted; pre is the batch the event carries.  PreDemod
\* is the second step, on the run r that dec->decimate left.
PreDemod(c, r) ==
  [c |-> [c EXCEPT !.pool = r.pool], out |-> r.out, abort |-> r.abort,
   pre |-> IF r.abort THEN <<>> ELSE <<r.out>>]

ChIqReceived(c, out, in) == PreDemod(c, MSdecimate(c.pool, c.dec, out, in))

-----------------------------------------------------------------------------
(* DemodulatorFm and DemodulatorAm, Ddr.cpp:361-536.  A demodulator call   *)
(* yields the demodulator, the vectors written to the audio sink           *)
(* (sinkWriteSamples) and whether an assertion has stopped the program.    *)

\* the gain of setDemodParams, lines 376-378, in dB:
\* 20 * log10(samp_rate / (2 * pi * max_dev) / 2)
FmGain_narrow(samp_rate, max_dev) == [samp_rate |-> samp_rate, max_dev |-> 5000]
FmGain(samp_rate, max_dev) == [samp_rate |-> samp_rate, max_dev |-> max_dev]

\* wb_mode = (samp_rate > 32000), line 381
WbMode_never(samp_rate) == FALSE
WbMode(samp_rate) == samp_rate > 32000

\* setDemodParams_fixedwb is setDemodParams leaving the wideband audio
\* decimator as constructed
setDemodParams_fixedwb(fm, samp_rate, max_dev) ==
  [fm EXCEPT
     !.audio_dec = SetGain(fm.audio_dec, FmGain(samp_rate, max_dev)),
     !.wb_mode = WbMode(samp_rate)]
\* setDemodParams(samp_rate, max_dev), lines 372-392
setDemodParams(fm, samp_rate, max_dev) ==
  [fm EXCEPT
     !.audio_dec = SetGain(fm.audio_dec, FmGain(samp_rate, max_dev)),
     !.wb_mode = WbMode(samp_rate),
     !.audio_dec_wb =
        IF samp_rate = 160000
          THEN SetDecimatorParams(fm.audio_dec_wb, 5,
                                  CoeffTable("coeff_dec_160k_32k", Taps(5)),
                                  Taps(5))
        ELSE IF samp_rate = 192000
          THEN SetDecimatorParams(fm.audio_dec_wb, 6,
                                  CoeffTable("coeff_dec_192k_32k", Taps(6)),
                                  Taps(6))
        ELSE fm.audio_dec_wb]

\* DemodulatorFm(samp_rate, max_dev), lines 364-370
DemodulatorFmNew(samp_rate, max_dev) ==
  setDemodParams([iqold |-> <<1, 1>>,
                  audio_dec_wb |-> DecimatorDefault,
                  audio_dec |-> Member(2, "coeff_dec_audio_32k_16k"),
                  wb_mode |-> FALSE],
                 samp_rate, max_dev)

\* samp / abs(samp), line 419
Normalized(samp) == [norm |-> samp]

\* atan2(q*iold - i*qold, i*iold + q*qold), line 425, where i and q are the
\* parts of samp and iold and qold the parts of old
Atan2(samp, old) == [samp |-> samp, old |-> old]

\* one turn of the loop of lines 403-437, on sample idx (0-based); the
\* pair (iold, qold) is the field iqold
FmStep(fm, audio, samples, idx) ==
  LET samp == Normalized(samples[idx + 1])
  IN  [fm    |-> [fm EXCEPT !.iqold = samp],
       audio |-> Append(audio, Atan2(samp, fm.iqold))]

\* the turns lo+1 .. hi of the loop, one after the other, halved as in
\* DecimateLoop
RECURSIVE FmLoop(_, _, _, _, _)
FmLoop(fm, audio, samples, lo, hi) ==
  IF hi = lo \/ (fm.wb_mode /\ ~fm.wb_mode) \/ Len(audio) < 0
    THEN [fm |-> fm, audio |-> audio]
  ELSE IF hi = lo + 1 THEN FmStep(fm, audio, samples, lo)
  ELSE LET mid == (lo + hi) \div 2
           r   == FmLoop(fm, audio, samples, lo, mid)
       IN  FmLoop(r.fm, r.audio, samples, mid, hi)

\* DemodulatorFm::iq_received(samples), lines 394-480, last step first:
\* FmWrite is sinkWriteSamples of line 479, on what the loop (a), the
\* wide-band decimator (r1) and the audio decimator (r2) left; FmAudioDec is
\* audio_dec.decimate of lines 458 and 462; FmAudioDecWb is
\* audio_dec_wb.decimate of line 457, called when wb_mode is set (line
\* 454); FmIqReceived is the loop of lines 403-437 followed by these.
FmWrite(a, r1, r2) ==
  [fm    |-> [a.fm EXCEPT !.audio_dec_wb = r1.d, !.audio_dec = r2.d],
   sink  |-> IF r2.abort THEN <<>> ELSE <<r2.out>>,
   abort |-> r2.abort]

FmAudioDec(fm, a, r1) ==
  FmWrite(a, r1, IF r1.abort
                   THEN [d |-> fm.audio_dec, out |-> <<>>, abort |-> TRUE]
                   ELSE Decimate(fm.audio_dec, <<>>, r1.out))

FmAudioDecWb(fm, a) ==
  FmAudioDec(fm, a,
             IF fm.wb_mode
               THEN Decimate(fm.audio_dec_wb, <<>>, a.audio)
               ELSE [d |-> fm.audio_dec_wb, out |-> a.audio, abort |-> FALSE])

FmIqReceived(fm, samples) ==
  FmAudioDecWb(fm, FmLoop(fm, <<>>, samples, 0, Len(samples)))

\* DemodulatorAm(void), lines 511-515
DemodulatorAmNew ==
  [audio_dec |-> SetGain(Member(2, "coeff_dec_32k_16k"), 10)]

\* abs(samp), line 523
Envelope(samp) == [am |-> samp]

\* DemodulatorAm::iq_received(samples), lines 517-532: the envelope is
\* written to the sink as it is
AmIqReceived(am, samples) ==
  [am    |-> am,
   sink  |-> <<[idx \in 1..Len(samples) |-> Envelope(samples[idx])]>>,
   abort |-> FALSE]

-----------------------------------------------------------------------------
(* Ddr::Channel, Ddr.cpp:789-892 *)

\* the null pointers channelizer(0) and demod(0)
NoChannelizer == [rate |-> 0, pool |-> <<>>, dec |-> NullMS]
NoDemod == "null"

Modulations == {"MOD_FM", "MOD_WBFM", "MOD_AM"}

\* Channel(fq_offset, sample_rate), lines 792-797
ChannelNew(fq_offset, sample_rate) ==
  [sample_rate |-> sample_rate,
   channelizer |-> NoChannelizer,
   fm_demod    |-> DemodulatorFmNew(32000, 5000),
   am_demod    |-> DemodulatorAmNew,
   demod       |-> NoDemod,
   trans       |-> TranslateNew(sample_rate, fq_offset),
   enabled     |-> TRUE]

\* setModulation(mod), lines 830-852; the assert of line 850 stops the
\* program when no case matched
ChannelSetModulation(ch, mod) ==
  CASE mod = "MOD_FM" ->
         LET z == ChSetBw(ch.channelizer, "BW_20K", "null")
         IN  [ch |-> [ch EXCEPT
                !.channelizer = z.c,
                !.fm_demod = setDemodParams(ch.fm_demod, ChSampRate(z.c), 5000),
                !.demod = "fm_demod"],
              abort |-> z.abort]
    [] mod = "MOD_WBFM" ->
         LET z == ChSetBw(ch.channelizer, "BW_WIDE", "null")
         IN  [ch |-> [ch EXCEPT
                !.channelizer = z.c,
                !.fm_demod = setDemodParams(ch.fm_demod, ChSampRate(z.c), 75000),
                !.demod = "fm_demod"],
              abort |-> z.abort]
    [] mod = "MOD_AM" ->
         LET z == ChSetBw(ch.channelizer, "BW_10K", "null")
         IN  [ch |-> [ch EXCEPT !.channelizer = z.c, !.demod = "am_demod"],
              abort |-> z.abort]
    [] OTHER -> [ch |-> [ch EXCEPT !.demod = NoDemod], abort |-> TRUE]

\* initialize(), lines 804-823: ok tells what it returns.  wild is the
\* outcome of the delete of the pointer that Channelizer2400 never set.
ChannelInitialize(ch, wild) ==
  IF ch.sample_rate = 2400000
    THEN LET z == Channelizer2400New(wild)
         IN  IF z.abort
               THEN [ch |-> ch, ok |-> FALSE, abort |-> TRUE]
               ELSE LET m == ChannelSetModulation(
                               [ch EXCEPT !.channelizer = z.c], "MOD_FM")
                    IN  [ch |-> m.ch, ok |-> TRUE, abort |-> m.abort]
  ELSE IF ch.sample_rate = 960000
    THEN LET z == Channelizer960New
             m == ChannelSetModulation(
                    [ch EXCEPT !.channelizer = z.c], "MOD_FM")
         IN  [ch |-> m.ch, ok |-> TRUE, abort |-> m.abort]
  ELSE [ch |-> ch, ok |-> FALSE, abort |-> FALSE]

\* setFqOffset(fq_offset), lines 825-828
ChannelSetFqOffset(ch, fq_offset) ==
  [ch EXCEPT !.trans = setOffset(ch.trans, fq_offset)]

\* enable() and disable(), lines 870-878
ChannelEnable_noop(ch) == ch
ChannelEnable(ch) == [ch EXCEPT !.enabled = TRUE]
ChannelDisable(ch) == [ch EXCEPT !.enabled = FALSE]

\* the test of line 861
ChannelOpen_always(ch) == TRUE
ChannelOpen(ch) == ch.enabled

\* demod->iq_received(channelized), line 866: the call through the pointer
\* demod, which is &fm_demod or &am_demod; Demod*Returned is the channel
\* once the demodulator has returned r
DemodFmReturned(ch, r) ==
  [ch |-> [ch EXCEPT !.fm_demod = r.fm], sink |-> r.sink, abort |-> r.abort]

DemodAmReturned(ch, r) ==
  [ch |-> [ch EXCEPT !.am_demod = r.am], sink |-> r.sink, abort |-> r.abort]

DemodIqReceived(ch, channelized) ==
  IF ch.demod = "fm_demod"
    THEN DemodFmReturned(ch, FmIqReceived(ch.fm_demod, channelized))
    ELSE DemodAmReturned(ch, AmIqReceived(ch.am_demod, channelized))

\* iq_received(samples), lines 859-868: the channel after the call, the
\* preDemod events emitted, the vectors written to the audio sink, and
\* whether an assertion has stopped the program; order is the events in
\* the order of the calls that made them: preDemod by the channelizer (line
\* 865), sinkWriteSamples by the demodulator (line 866).  Last step first:
\* ChannelDemodulated is the return of line 866, ChannelChannelized the call
\* of line 866 on what the channelizer left, ChannelTranslated the call of
\* line 865 on what the translator left, and ChannelIqReceived the test of
\* line 861 and the call of line 864.
ChannelDemodulated_sinkfirst(channelized, r) ==
  [ch |-> r.ch, pre |-> channelized.pre, sink |-> r.sink, abort |-> r.abort,
   order |-> [i \in 1..Len(r.sink) |-> "sinkWriteSamples"]
               \o [i \in 1..Len(channelized.pre) |-> "preDemod"]]
ChannelDemodulated(channelized, r) ==
  [ch |-> r.ch, pre |-> channelized.pre, sink |-> r.sink, abort |-> r.abort,
   order |-> [i \in 1..Len(channelized.pre) |-> "preDemod"]
               \o [i \in 1..Len(r.sink) |-> "sinkWriteSamples"]]

ChannelChannelized(ch, channelized) ==
  IF channelized.abort
    THEN [ch |-> [ch EXCEPT !.channelizer = channelized.c],
          pre |-> <<>>, sink |-> <<>>, abort |-> TRUE, order |-> <<>>]
    ELSE ChannelDemodulated(channelized,
           DemodIqReceived([ch EXCEPT !.channelizer = channelized.c],
                           channelized.out))

ChannelTranslated(ch, translated) ==
  ChannelChannelized([ch EXCEPT !.trans = translated.t],
                     ChIqReceived(ch.channelizer, <<>>, translated.out))

ChannelIqReceived_phase(ch, samples) ==
  IF ChannelOpen(ch)
    THEN ChannelTranslated(ch, TranslateIq(ch.trans, <<>>, samples))
    ELSE [ch |-> [ch EXCEPT !.trans.n = ch.trans.n + 1],
          pre |-> <<>>, sink |-> <<>>, abort |-> FALSE, order |-> <<>>]
ChannelIqReceived(ch, samples) ==
  IF ChannelOpen(ch)
    THEN ChannelTranslated(ch, TranslateIq(ch.trans, <<>>, samples))
    ELSE [ch |-> ch, pre |-> <<>>, sink |-> <<>>, abort |-> FALSE,
          order |-> <<>>]

-----------------------------------------------------------------------------
(* Ddr, Ddr.cpp:917-1084, and the tuner WbRxRtlSdr it attaches to.         *)
(* Frequencies of the configuration are doubles: FQ is kept in half Hz     *)
(* (fq2 = 2 * fq), so that a fractional FQ can be told from a whole one.   *)

\* the null pointer channel(0)
NoChannel == [null |-> TRUE]

\* a double converted to int (truncation toward zero), for a value given in
\* halves
IntOfHalves(x2) == IF x2 >= 0 THEN x2 \div 2 ELSE -((-x2) \div 2)

\* Ddr(cfg, name), lines 937-941
DdrNew(name, cfg) ==
  [st |-> "constructed", name |-> name, cfg |-> cfg,
   channel |-> NoChannel, rtl |-> 0, fq2 |-> 0]

\* the slot of a name in ddr_map: 0 when the name is not in the map
DdrFind_absent(map, name) == 0
DdrFind(map, name) == map[name]

\* the test of line 1054, abs(new_offset) > (rtl->sampleRate() / 2) - 12500,
\* for an offset in half Hz
OutOfRange_strict(new_offset2, sampleRate) ==
  Abs(new_offset2) >= 2 * ((sampleRate \div 2) - 12500)
OutOfRange(new_offset2, sampleRate) ==
  Abs(new_offset2) > 2 * ((sampleRate \div 2) - 12500)

\* the test of line 1056
WarnIfEnabled_always(ch) == TRUE
WarnIfEnabled(ch) == ch.enabled

\* tunerFqChanged(center_fq), lines 1046-1066, of the DDR object D attached
\* to a tuner of the given sample rate: the object after the call and the
\* diagnostics written
DdrTunerFqChanged(D, center_fq, sampleRate) ==
  IF D.channel = NoChannel THEN [ddr |-> D, log |-> <<>>]
  ELSE LET new_offset2 == D.fq2 - 2 * center_fq
       IN  IF OutOfRange(new_offset2, sampleRate)
             THEN IF WarnIfEnabled(D.channel)
                    THEN [ddr |-> [D EXCEPT !.channel = ChannelDisable(D.channel)],
                          log |-> <<"WARNING: Could not fit DDR">>]
                    ELSE [ddr |-> D, log |-> <<>>]
             ELSE [ddr |-> [D EXCEPT !.channel =
                              ChannelEnable(ChannelSetFqOffset(
                                D.channel, IntOfHalves(new_offset2)))],
                   log |-> <<>>]

\* the modulation named by the configuration value, lines 1010-1031
ModulationOf(modstr) ==
  CASE modstr = "FM"   -> "MOD_FM"
    [] modstr = "WBFM" -> "MOD_WBFM"
    [] modstr = "AM"   -> "MOD_AM"
    [] OTHER           -> "unknown"

\* initialize(), lines 962-1043, of the DDR object D: the object, the map,
\* the DDRs registered with the tuner and those whose channel is connected
\* to iqReceived after the call, what it returns (ok), the diagnostics, and
\* whether the program stopped.  me is the identity of D; tuner is what
\* WbRxRtlSdr::instance returns (0 when the tuner cannot be created), base
\* what LocalRxBase::initialize returns, wild the outcome of the delete in
\* the constructor of Channelizer2400.
DdrInitialize(D, me, map, regs, conns, tuner, center_fq, sampleRate, base, wild) ==
  LET fail(D1, map1, regs1, msg) ==
        [ddr |-> D1, map |-> map1, regs |-> regs1, conns |-> conns \ {me},
         ok |-> FALSE, log |-> <<msg>>, abort |-> FALSE]
  IN
  IF DdrFind(map, D.name) # 0
    THEN [ddr |-> D, map |-> map, regs |-> regs, conns |-> conns,
          ok |-> FALSE, log |-> <<"ERROR: name must be unique">>,
          abort |-> FALSE]
  ELSE
  LET map1 == [map EXCEPT ![D.name] = me]
  IN
  IF D.cfg.FQ = 0 THEN fail(D, map1, regs, "ERROR: FQ not set")
  ELSE
  LET D1 == [D EXCEPT !.fq2 = D.cfg.FQ]
  IN
  IF D.cfg.WBRX = "" THEN fail(D1, map1, regs, "ERROR: WBRX not set")
  ELSE
  LET D2 == [D1 EXCEPT !.rtl = tuner]
  IN
  IF tuner = 0 THEN fail(D2, map1, regs, "ERROR: Could not create WBRX")
  ELSE
  LET regs1 == regs \cup {me}
      ch0   == ChannelNew(IntOfHalves(D2.fq2 - 2 * center_fq), sampleRate)
      ci    == ChannelInitialize(ch0, wild)
  IN
  IF ci.abort
    THEN [ddr |-> D2, map |-> map1, regs |-> regs1, conns |-> conns,
          ok |-> FALSE, log |-> <<>>, abort |-> TRUE]
  ELSE IF ~ci.ok
    THEN fail(D2, map1, regs1, "ERROR: Could not initialize channel")
  ELSE
  LET mod == ModulationOf(IF D.cfg.MODULATION = "" THEN "FM"
                          ELSE D.cfg.MODULATION)
  IN
  IF mod = "unknown"
    THEN fail(D2, map1, regs1, "ERROR: Unknown modulation")
  ELSE
  LET cm == ChannelSetModulation(ci.ch, mod)
  IN
  IF cm.abort
    THEN [ddr |-> D2, map |-> map1, regs |-> regs1, conns |-> conns,
          ok |-> FALSE, log |-> <<>>, abort |-> TRUE]
  ELSE IF ~base
    THEN fail(D2, map1, regs1, "ERROR: LocalRxBase")
  ELSE
  LET t == DdrTunerFqChanged([D2 EXCEPT !.channel = cm.ch],
                             center_fq, sampleRate)
  IN  [ddr |-> t.ddr, map |-> map1, regs |-> regs1,
       conns |-> conns \cup {me}, ok |-> TRUE, log |-> t.log,
       abort |-> FALSE]

\* ~Ddr(), lines 944-959, statement by statement on x: the map, the
\* registered DDRs, the connected channels, and the statements done so far.
\* Lines 946-950: rtl->unregisterDdr(this) when a tuner was attached.
DdrUnregister(D, me, x) ==
  IF D.rtl # 0
    THEN [x EXCEPT !.regs = x.regs \ {me},
                   !.done = Append(x.done, "unregisterDdr")]
    ELSE x

\* lines 952-956: the entry of the name is erased when there is one
DdrErase(D, x) ==
  IF DdrFind(x.map, D.name) # 0
    THEN [x EXCEPT !.map = [x.map EXCEPT ![D.name] = 0],
                   !.done = Append(x.done, "erase")]
    ELSE x

\* line 958: delete channel, which as a sigc::trackable leaves the signal
\* iqReceived
DdrRelease(me, x) ==
  [x EXCEPT !.conns = x.conns \ {me}, !.done = Append(x.done, "delete channel")]

\* ~Ddr(): the three in the order of the code
DdrDestroy_releasefirst(D, me, map, regs, conns) ==
  DdrErase(D, DdrUnregister(D, me, DdrRelease(me,
    [map |-> map, regs |-> regs, conns |-> conns, done |-> <<>>])))
DdrDestroy(D, me, map, regs, conns) ==
  DdrRelease(me, DdrErase(D, DdrUnregister(D, me,
    [map |-> map, regs |-> regs, conns |-> conns, done |-> <<>>])))

-----------------------------------------------------------------------------
(* The harnesses at rest: a specification of one part of the program      *)
(* leaves the variables of the others at these values.                     *)

DecIdle ==
  /\ d_dec = DecimatorDefault
  /\ d_out = <<>>
  /\ d_in = <<>>
  /\ d_fed = 0
  /\ d_before = <<>>
  /\ d_gain = <<>>
  /\ d_pc = "off"

TrIdle ==
  /\ t_tr = <<>>
  /\ t_out = <<>>
  /\ t_in = <<>>
  /\ t_fed = 0
  /\ t_K = 0
  /\ t_prev = <<>>
  /\ t_f = 0
  /\ t_pc = "off"

CzIdle ==
  /\ z_ch = <<>>
  /\ z_bw = ""
  /\ z_out = <<>>
  /\ z_in = <<>>
  /\ z_pre = <<>>
  /\ z_fed = 0
  /\ z_calls = 0
  /\ z_pc = "off"

ChIdle ==
  /\ c_ch = <<>>
  /\ c_op = ""
  /\ c_mod = ""
  /\ c_in = <<>>
  /\ c_pre = <<>>
  /\ c_sink = <<>>
  /\ c_fed = 0
  /\ c_calls = 0
  /\ c_pc = "off"

ModIdle == s_last = <<>>

GpsIdle ==
  /\ g_cl = <<>>
  /\ g_last = <<>>
  /\ g_attempts = 0
  /\ g_polls = 0

LocIdle ==
  /\ l_instance = <<>>
  /\ l_last = <<>>
  /\ n_input = <<>>
  /\ n_handled = <<>>

DdrIdle ==
  /\ ddr = <<>>
  /\ ddr_map = <<>>
  /\ rtl = <<>>
  /\ msgs = <<>>
  /\ emitted = <<>>
  /\ last = ""
  /\ fed = 0
  /\ pc = "off"

MsIdle ==
  /\ m_pool = <<>>
  /\ m_ms = <<>>
  /\ m_out = <<>>
  /\ m_in = <<>>
  /\ m_fed = 0
  /\ m_pc = "off"

-----------------------------------------------------------------------------
(* The decimator harness: one decimator, fed the stream in batches *)

\* what the caller's output vector may hold before a call
Junk == {<<>>, <<0>>, <<0, 0>>}

\* gains in dB
Gains == {0, 10}

\* no setGain since construction
NoGain == [set |-> FALSE, g |-> 0]

DecInit ==
  /\ \E M \in 1..MaxDecFact : \E e \in 0..TapsExtra :
       d_dec = DecimatorNew(M, CoeffTable("c", M + e), M + e)
  /\ d_out \in Junk
  /\ d_in = <<>>
  /\ d_fed = 0
  /\ d_before = <<>>
  /\ d_gain = NoGain
  /\ d_pc = "idle"
  /\ MsIdle /\ TrIdle /\ CzIdle /\ ChIdle /\ DdrIdle /\ ModIdle
  /\ GpsIdle /\ LocIdle

\* decimate(out, in) on a batch of n samples
DecDecimate(n) ==
  /\ d_pc # "abort"
  /\ d_fed + n <= MaxFed
  /\ LET in == Stream(d_fed, n)
         r  == Decimate(d_dec, d_out, in)
     IN  /\ d_in' = in
         /\ d_fed' = d_fed + n
         /\ d_before' = d_out
         /\ d_dec' = r.d
         /\ d_out' = r.out
         /\ d_pc' = IF r.abort THEN "abort" ELSE "done"
  /\ UNCHANGED d_gain

\* setGain(g)
DecSetGain(g) ==
  /\ d_pc # "abort"
  /\ d_dec' = SetGain(d_dec, g)
  /\ d_gain' = [set |-> TRUE, g |-> g]
  /\ d_pc' = "idle"
  /\ UNCHANGED <<d_out, d_in, d_fed, d_before>>

\* the caller reuses the output vector for something else between calls
DecCallerWrites(j) ==
  /\ d_pc # "abort"
  /\ d_out' = j
  /\ d_pc' = "idle"
  /\ UNCHANGED <<d_dec, d_in, d_fed, d_before, d_gain>>

DecNext ==
  /\ \/ \E n \in 0..MaxLen : DecDecimate(n)
     \/ \E g \in Gains : DecSetGain(g)
     \/ \E j \in Junk : DecCallerWrites(j)
  /\ UNCHANGED <<msVars, trVars, czVars, chVars, ddrVars, modVars, gpsVars, locVars>>

SpecDec == DecInit /\ [][DecNext]_vars

-----------------------------------------------------------------------------
(* The cascade harness: a cascade of 1 to 5 stages over a pool of five     *)
(* decimators, fed the stream in batches                                   *)

PoolNames == <<"s1", "s2", "s3", "s4", "s5">>

\* the cascade of the first k decimators of the pool, in order
CascadeOf(k) ==
  CASE k = 1 -> DecimatorMS1("s1")
    [] k = 2 -> DecimatorMS2("s1", "s2")
    [] k = 3 -> DecimatorMS3("s1", "s2", "s3")
    [] k = 4 -> DecimatorMS4("s1", "s2", "s3", "s4")
    [] k = 5 -> DecimatorMS5("s1", "s2", "s3", "s4", "s5")

\* the pool whose i-th decimator has factor f[i] and f[i] + e taps
PoolOf(f, e) ==
  [n \in {PoolNames[i] : i \in 1..5} |->
     LET i == CHOOSE i \in 1..5 : PoolNames[i] = n
     IN  DecimatorNew(f[i], CoeffTable(n, f[i] + e), f[i] + e)]

MsInit ==
  /\ \E f \in [1..5 -> 1..MsMaxFact] : \E e \in 0..TapsExtra :
       m_pool = PoolOf(f, e)
  /\ \E k \in 1..5 : m_ms = CascadeOf(k)
  /\ m_out = <<>>
  /\ m_in = <<>>
  /\ m_fed = 0
  /\ m_pc = "idle"
  /\ DecIdle /\ TrIdle /\ CzIdle /\ ChIdle /\ DdrIdle /\ ModIdle
  /\ GpsIdle /\ LocIdle

\* ms->decimate(out, in) on a batch of n samples
MsDecimate(n) ==
  /\ m_pc # "abort"
  /\ LET in == Stream(m_fed, n)
         r  == MSdecimate(m_pool, m_ms, m_out, in)
     IN  /\ m_in' = in
         /\ m_fed' = m_fed + n
         /\ m_pool' = r.pool
         /\ m_out' = r.out
         /\ m_pc' = IF r.abort THEN "abort" ELSE "done"
  /\ UNCHANGED m_ms

\* the batches offered: g groups of decFact() samples, and one sample more
\* than a group
MsNext ==
  /\ \/ \E g \in 0..MsMaxGroups :
          /\ m_fed + g * MSdecFact(m_pool, m_ms)
               <= MsMaxGroups * MSdecFact(m_pool, m_ms)
          /\ MsDecimate(g * MSdecFact(m_pool, m_ms))
     \/ /\ m_fed = 0
        /\ MsDecimate(MSdecFact(m_pool, m_ms) + 1)
  /\ UNCHANGED <<decVars, trVars, czVars, chVars, ddrVars, modVars, gpsVars, locVars>>

SpecMS == MsInit /\ [][MsNext]_vars

-----------------------------------------------------------------------------
(* The translator harness: one translator, re-tuned and fed the stream in  *)
(* batches                                                                 *)

\* the tuner sample rates the channel supports, Ddr.cpp:806 and 810
Rate2400 == 2400000
Rate960 == 960000

\* frequency offsets in Hz: none, and offsets whose tables are short
TrOffsets == {0, 240000, -480000, 360000}

\* no setOffset call to tell of
NotSet == [called |-> FALSE, f |-> 0, n |-> 0]

TrInit ==
  /\ \E R \in {Rate960, Rate2400} : \E f \in TrOffsets :
       /\ t_tr = TranslateNew(R, f)
       /\ t_f = f
  /\ t_prev = NotSet
  /\ t_out \in Junk
  /\ t_in = <<>>
  /\ t_fed = 0
  /\ t_K = 0
  /\ t_pc = "idle"
  /\ DecIdle /\ MsIdle /\ CzIdle /\ ChIdle /\ DdrIdle /\ ModIdle
  /\ GpsIdle /\ LocIdle

\* setOffset(f)
TrSetOffset(f) ==
  /\ t_tr' = setOffset(t_tr, f)
  /\ t_f' = f
  /\ t_K' = 0
  /\ t_prev' = [called |-> TRUE, f |-> t_f, n |-> t_tr.n]
  /\ t_pc' = "idle"
  /\ UNCHANGED <<t_out, t_in, t_fed>>

\* iq_received(out, in) on a batch of n samples
TrIqReceived(n) ==
  /\ t_fed + n <= TrMaxFed
  /\ LET in == Stream(t_fed, n)
         r  == TranslateIq(t_tr, t_out, in)
     IN  /\ t_tr' = r.t
         /\ t_out' = r.out
         /\ t_in' = in
         /\ t_fed' = t_fed + n
         /\ t_K' = t_K + n
         /\ t_prev' = NotSet
         /\ t_pc' = "done"
  /\ UNCHANGED t_f

TrNext ==
  /\ \/ \E f \in TrOffsets : TrSetOffset(f)
     \/ \E n \in 0..TrMaxLen : TrIqReceived(n)
  /\ UNCHANGED <<decVars, msVars, czVars, chVars, ddrVars, modVars, gpsVars, locVars>>

SpecTr == TrInit /\ [][TrNext]_vars

-----------------------------------------------------------------------------
(* The channelizer harness: a channelizer of either variant, switched      *)
(* between bandwidths and fed the stream in batches                        *)

CzInit ==
  /\ \/ /\ z_ch = Channelizer960New.c
        /\ z_pc = "idle"
     \/ \E wild \in {"null", "crash"} :
          /\ z_ch = Channelizer2400New(wild).c
          /\ z_pc = IF Channelizer2400New(wild).abort THEN "abort" ELSE "idle"
  /\ z_bw = "BW_20K"
  /\ z_out = <<>>
  /\ z_in = <<>>
  /\ z_pre = <<>>
  /\ z_fed = 0
  /\ z_calls = 0
  /\ DecIdle /\ MsIdle /\ TrIdle /\ ChIdle /\ DdrIdle /\ ModIdle
  /\ GpsIdle /\ LocIdle

\* setBw(bw)
CzSetBw(bw) ==
  /\ z_pc # "abort"
  /\ LET r == ChSetBw(z_ch, bw, "null")
     IN  /\ z_ch' = r.c
         /\ z_pc' = IF r.abort THEN "abort" ELSE "idle"
  /\ z_bw' = bw
  /\ UNCHANGED <<z_out, z_in, z_pre, z_fed, z_calls>>

\* iq_received(out, in) on a batch of g groups of decFact() samples
CzIqReceived(g) ==
  /\ z_pc # "abort"
  /\ z_calls < CzMaxCalls
  /\ \E in \in {Stream(z_fed, g * MSdecFact(z_ch.pool, z_ch.dec))} :
     \E r \in {ChIqReceived(z_ch, z_out, in)} :
         /\ z_ch' = r.c
         /\ z_out' = r.out
         /\ z_pre' = r.pre
         /\ z_in' = in
         /\ z_fed' = z_fed + Len(in)
         /\ z_pc' = IF r.abort THEN "abort" ELSE "done"
  /\ z_calls' = z_calls + 1
  /\ UNCHANGED z_bw

\* a value of the enumeration type that is none of its enumerators
BadBandwidths == {"BW_OTHER"}

\* the decimators of a cascade, first stage first
StageNames(ms) ==
  CASE ms.stages = 1 -> <<ms.d1>>
    [] ms.stages = 2 -> <<ms.d1, ms.d2>>
    [] ms.stages = 3 -> <<ms.d1, ms.d2, ms.d3>>
    [] ms.stages = 4 -> <<ms.d1, ms.d2, ms.d3, ms.d4>>
    [] ms.stages = 5 -> <<ms.d1, ms.d2, ms.d3, ms.d4, ms.d5>>

\* the product of the decimation factors of the first k stages
RECURSIVE PartProduct(_, _, _)
PartProduct(pool, names, k) ==
  IF k = 0 THEN 1
  ELSE PartProduct(pool, names, k - 1) * pool[names[k]].dec_fact

\* iq_received(out, in) on a batch that fills the first k stages of the
\* cascade once: a whole number of groups for them, and one sample for the
\* stage after them
CzIqReceivedShort(k) ==
  /\ z_pc # "abort"
  /\ z_calls < CzMaxCalls
  /\ k < z_ch.dec.stages
  /\ \E in \in {Stream(z_fed, PartProduct(z_ch.pool, StageNames(z_ch.dec), k))} :
     \E r \in {ChIqReceived(z_ch, z_out, in)} :
         /\ z_ch' = r.c
         /\ z_out' = r.out
         /\ z_pre' = r.pre
         /\ z_in' = in
         /\ z_fed' = z_fed + Len(in)
         /\ z_pc' = IF r.abort THEN "abort" ELSE "done"
  /\ z_calls' = z_calls + 1
  /\ UNCHANGED z_bw

CzNext ==
  /\ \/ \E bw \in Bandwidths : CzSetBw(bw)
     \/ \E bw \in BadBandwidths : CzSetBw(bw)
     \/ \E g \in 1..CzMaxGroups : CzIqReceived(g)
     \/ \E k \in 0..4 : CzIqReceivedShort(k)
  /\ UNCHANGED <<decVars, msVars, trVars, chVars, ddrVars, modVars, gpsVars, locVars>>

SpecCz == CzInit /\ [][CzNext]_vars

-----------------------------------------------------------------------------
(* The channel harness: one Channel, constructed, initialized and then     *)
(* re-parameterized, enabled, disabled and fed the stream in batches       *)

\* tuner rates: the two supported ones and another
ChRates == {960000, 2400000, 1920000}

\* frequency offsets in Hz
ChOffsets == {0, 240000}

\* the audio rate, Ddr.cpp:1107
AudioRate == 16000

ChanInit ==
  /\ \E R \in ChRates : \E f \in ChOffsets : c_ch = ChannelNew(f, R)
  /\ c_op = "other"
  /\ c_mod = ""
  /\ c_in = <<>>
  /\ c_pre = <<>>
  /\ c_sink = <<>>
  /\ c_fed = 0
  /\ c_calls = 0
  /\ c_pc = "new"
  /\ DecIdle /\ MsIdle /\ TrIdle /\ CzIdle /\ DdrIdle /\ ModIdle
  /\ GpsIdle /\ LocIdle

\* what the harness recorded of the last iq_received call is dropped when
\* another operation is called
ChanForget ==
  /\ c_in' = <<>>
  /\ c_pre' = <<>>
  /\ c_sink' = <<>>

\* initialize()
ChanInitialize ==
  /\ c_pc = "new"
  /\ \E wild \in {"null", "crash"} :
       LET r == ChannelInitialize(c_ch, wild)
       IN  /\ c_ch' = r.ch
           /\ c_pc' = IF r.abort THEN "abort"
                      ELSE IF r.ok THEN "ready" ELSE "failed"
           /\ c_mod' = IF r.ok THEN "MOD_FM" ELSE c_mod
  /\ c_op' = "other"
  /\ ChanForget
  /\ UNCHANGED <<c_fed, c_calls>>

\* setModulation(mod)
ChanSetModulation(mod) ==
  /\ c_pc = "ready"
  /\ LET r == ChannelSetModulation(c_ch, mod)
     IN  /\ c_ch' = r.ch
         /\ c_pc' = IF r.abort THEN "abort" ELSE "ready"
  /\ c_mod' = mod
  /\ c_op' = "other"
  /\ ChanForget
  /\ UNCHANGED <<c_fed, c_calls>>

\* setFqOffset(f)
ChanSetFqOffset(f) ==
  /\ c_pc = "ready"
  /\ c_ch' = ChannelSetFqOffset(c_ch, f)
  /\ c_op' = "other"
  /\ ChanForget
  /\ UNCHANGED <<c_mod, c_fed, c_calls, c_pc>>

\* enable()
ChanEnable ==
  /\ c_pc = "ready"
  /\ c_ch' = ChannelEnable(c_ch)
  /\ c_op' = "other"
  /\ ChanForget
  /\ UNCHANGED <<c_mod, c_fed, c_calls, c_pc>>

\* disable()
ChanDisable ==
  /\ c_pc = "ready"
  /\ c_ch' = ChannelDisable(c_ch)
  /\ c_op' = "other"
  /\ ChanForget
  /\ UNCHANGED <<c_mod, c_fed, c_calls, c_pc>>

\* iq_received(samples) on a batch that makes g audio samples
ChanIqReceived(g) ==
  /\ c_pc = "ready"
  /\ c_fed + g * (c_ch.sample_rate \div AudioRate)
       <= ChMaxAudio * (c_ch.sample_rate \div AudioRate)
  /\ \E in \in {Stream(c_fed, g * (c_ch.sample_rate \div AudioRate))} :
     \E r \in {ChannelIqReceived(c_ch, in)} :
         /\ c_ch' = r.ch
         /\ c_pre' = r.pre
         /\ c_sink' = r.sink
         /\ c_in' = in
         /\ c_fed' = c_fed + Len(in)
         /\ c_pc' = IF r.abort THEN "abort" ELSE "ready"
  /\ c_calls' = c_calls + 1
  /\ c_op' = "iq_received"
  /\ UNCHANGED c_mod

ChanNext ==
  /\ \/ ChanInitialize
     \/ \E mod \in Modulations : ChanSetModulation(mod)
     \/ \E f \in ChOffsets : ChanSetFqOffset(f)
     \/ ChanEnable
     \/ ChanDisable
     \/ \E g \in 1..ChMaxAudio : ChanIqReceived(g)
  /\ UNCHANGED <<decVars, msVars, trVars, czVars, ddrVars, modVars, gpsVars, locVars>>

SpecChan == ChanInit /\ [][ChanNext]_vars

-----------------------------------------------------------------------------
(* The modulation harness: one Channel, initialized, then switched between *)
(* modulations and fed the stream in batches, with a record of the last    *)
(* call                                                                    *)

ModInit ==
  /\ \E R \in ChRates : \E f \in ChOffsets : c_ch = ChannelNew(f, R)
  /\ c_op = "other"
  /\ c_mod = ""
  /\ c_in = <<>>
  /\ c_pre = <<>>
  /\ c_sink = <<>>
  /\ c_fed = 0
  /\ c_calls = 0
  /\ c_pc = "new"
  /\ s_last = [op |-> "new", rep |-> FALSE]
  /\ DecIdle /\ MsIdle /\ TrIdle /\ CzIdle /\ DdrIdle
  /\ GpsIdle /\ LocIdle

\* initialize()
ModInitialize ==
  /\ ChanInitialize
  /\ s_last' = [op |-> "initialize", rep |-> FALSE]

\* setModulation(mod)
ModSetModulation(mod) ==
  /\ ChanSetModulation(mod)
  /\ s_last' = [op  |-> "setModulation",
                rep |-> (s_last.op = "setModulation" /\ c_mod = mod)]

\* iq_received(samples) on a batch that makes g audio samples
ModIqReceived(g) ==
  /\ ChanIqReceived(g)
  /\ s_last' = [op |-> "iq_received", rep |-> FALSE]

ModNext ==
  /\ \/ ModInitialize
     \/ \E mod \in Modulations : ModSetModulation(mod)
     \/ \E g \in 1..ChMaxAudio : ModIqReceived(g)
  /\ UNCHANGED <<decVars, msVars, trVars, czVars, ddrVars, gpsVars, locVars>>

SpecMod == ModInit /\ [][ModNext]_vars

-----------------------------------------------------------------------------
(* The receivers of one process: Ddr objects and the tuner they name.      *)
(* The tuner is WbRxRtlSdr, whose code is in WbRxRtlSdr.cpp: it keeps the  *)
(* DDRs registered with it, calls tunerFqChanged of each when its centre   *)
(* frequency changes, and emits iqReceived for every batch it reads.       *)
(* Spec has two Ddr objects, initialized and destroyed in any order while  *)
(* the tuner is retuned; SpecRx has one, and the tuner also delivers       *)
(* batches.                                                                *)

DdrIds == {1, 2}
Names == {"RX1", "RX2"}

\* the sections of the configuration file a DDR may be given: FQ in half
\* Hz (0: not set), WBRX and MODULATION ("": not set)
Configs ==
  {[FQ |-> 200050000, WBRX |-> "W", MODULATION |-> m] :
     m \in {"", "WBFM", "AM", "SSB"}}
  \cup {[FQ |-> 0, WBRX |-> "W", MODULATION |-> "FM"],
        [FQ |-> 200050000, WBRX |-> "", MODULATION |-> "FM"]}

\* the passband limit of a tuner of rate R, in Hz
Limit(R) == (R \div 2) - 12500

\* the centre frequencies the tuner is set to: 100 MHz, 99 MHz, and those
\* that put a DDR at 100.025 MHz on the passband limit and 1 Hz beyond it
TunerCenters(R) ==
  {100000000, 99000000}
    \cup {100025000 - o : o \in {Limit(R), -Limit(R), Limit(R) + 1, -(Limit(R) + 1)}}

NoAudio == [pre |-> <<>>, sink |-> <<>>]

\* channel != 0 && channel->isEnabled()
IsEnabled(D) == D.channel # NoChannel /\ D.channel.enabled

\* the state in which the Ddr objects objs have been constructed
InitWith(objs) ==
  /\ ddr = objs
  /\ ddr_map = [n \in Names |-> 0]
  /\ \E R \in ChRates :
       rtl = [sampleRate |-> R, centerFq |-> 100000000, ddrs |-> {}, iq |-> {}]
  /\ msgs = [d \in DOMAIN objs |-> <<>>]
  /\ emitted = [d \in DOMAIN objs |-> NoAudio]
  /\ last = [op |-> "", was |-> [d \in DOMAIN objs |-> FALSE]]
  /\ fed = 0
  /\ pc = "run"
  /\ DecIdle /\ MsIdle /\ TrIdle /\ CzIdle /\ ChIdle /\ ModIdle
  /\ GpsIdle /\ LocIdle

Init ==
  \E n2 \in Names : \E c1 \in Configs : \E c2 \in {c \in Configs : c.MODULATION = ""} :
    InitWith([d \in DdrIds |-> IF d = 1 THEN DdrNew("RX1", c1) ELSE DdrNew(n2, c2)])

RxInit ==
  \E c1 \in Configs : InitWith([d \in {1} |-> DdrNew("RX1", c1)])

\* ddr[d].initialize()
Initialize(d) ==
  /\ pc = "run"
  /\ ddr[d].st = "constructed"
  /\ \E tuner \in {0, 1} : \E base \in BOOLEAN : \E wild \in {"null", "crash"} :
       \E r \in {DdrInitialize(ddr[d], d, ddr_map, rtl.ddrs, rtl.iq, tuner,
                                rtl.centerFq, rtl.sampleRate, base, wild)} :
           /\ ddr' = [ddr EXCEPT ![d] =
                        [r.ddr EXCEPT !.st = IF r.abort THEN "constructed"
                                             ELSE IF r.ok THEN "initialized"
                                             ELSE "failed"]]
           /\ ddr_map' = r.map
           /\ rtl' = [rtl EXCEPT !.ddrs = r.regs, !.iq = r.conns]
           /\ msgs' = [e \in DOMAIN ddr |-> IF e = d THEN r.log ELSE <<>>]
           /\ pc' = IF r.abort THEN "abort" ELSE "run"
  /\ emitted' = [e \in DOMAIN ddr |-> NoAudio]
  /\ last' = [op |-> "initialize",
              was |-> [e \in DOMAIN ddr |->
                         IF e = d THEN ddr'[d].st = "initialized"
                         ELSE IsEnabled(ddr[e])]]
  /\ UNCHANGED fed

\* delete ddr[d]
Destroy(d) ==
  /\ pc = "run"
  /\ ddr[d].st \in {"constructed", "initialized", "failed"}
  /\ LET r == DdrDestroy(ddr[d], d, ddr_map, rtl.ddrs, rtl.iq)
     IN  /\ ddr_map' = r.map
         /\ rtl' = [rtl EXCEPT !.ddrs = r.regs, !.iq = r.conns]
  /\ ddr' = [ddr EXCEPT ![d] = [st |-> "destroyed", name |-> ddr[d].name,
                                channel |-> NoChannel]]
  /\ msgs' = [e \in DOMAIN ddr |-> <<>>]
  /\ emitted' = [e \in DOMAIN ddr |-> NoAudio]
  /\ last' = [op |-> "destroy", was |-> [e \in DOMAIN ddr |-> IsEnabled(ddr'[e])]]
  /\ UNCHANGED <<fed, pc>>

\* the tuner calls tunerFqChanged(c) of the registered DDRs of the set
\* todo, one after the other; acc is the objects and the diagnostics so far
RECURSIVE NotifyAll(_, _, _, _)
NotifyAll(todo, c, sampleRate, acc) ==
  IF todo = {} THEN acc
  ELSE LET d == CHOOSE x \in todo : TRUE
           r == DdrTunerFqChanged(acc.ddr[d], c, sampleRate)
       IN  NotifyAll(todo \ {d}, c, sampleRate,
                     [ddr  |-> [acc.ddr EXCEPT ![d] = r.ddr],
                      msgs |-> [acc.msgs EXCEPT ![d] = r.log]])

\* the signal iqReceived calls iq_received(in) of the connected channels of
\* the set todo, one after the other, until one stops the process; acc is
\* the objects and what the channels emitted so far, and Emitted is acc
\* once the channel of DDR d has returned r
Emitted(acc, d, r) ==
  [ddr     |-> [acc.ddr EXCEPT ![d].channel = r.ch],
   emitted |-> [acc.emitted EXCEPT ![d] = [pre |-> r.pre, sink |-> r.sink]],
   abort   |-> r.abort]

RECURSIVE EmitAll(_, _, _)
EmitAll(todo, in, acc) ==
  IF todo = {} \/ acc.abort THEN acc
  ELSE LET d == CHOOSE x \in todo : TRUE
       IN  EmitAll(todo \ {d}, in,
                   Emitted(acc, d, ChannelIqReceived(acc.ddr[d].channel, in)))

\* the tuner is set to the centre frequency c and tells the registered DDRs
TunerFqChanged(c) ==
  /\ pc = "run"
  /\ LET r == NotifyAll(rtl.ddrs, c, rtl.sampleRate,
                        [ddr |-> ddr, msgs |-> [d \in DOMAIN ddr |-> <<>>]])
     IN  /\ ddr' = r.ddr
         /\ msgs' = r.msgs
  /\ rtl' = [rtl EXCEPT !.centerFq = c]
  /\ emitted' = [e \in DOMAIN ddr |-> NoAudio]
  /\ last' = [op |-> "tunerFqChanged",
              was |-> [e \in DOMAIN ddr |-> IsEnabled(ddr[e])]]
  /\ UNCHANGED <<ddr_map, fed, pc>>

\* the tuner emits iqReceived with a batch that makes g audio samples; a
\* batch emitted while no channel is connected reaches nothing
IqReceived(g) ==
  /\ pc = "run"
  /\ rtl.iq # {}
  /\ fed + g * (rtl.sampleRate \div AudioRate)
       <= IqMaxAudio * (rtl.sampleRate \div AudioRate)
  /\ \E in \in {Stream(fed, g * (rtl.sampleRate \div AudioRate))} :
     \E r \in {EmitAll(rtl.iq, in,
                       [ddr |-> ddr, emitted |-> [d \in DOMAIN ddr |-> NoAudio],
                        abort |-> FALSE])} :
         /\ ddr' = r.ddr
         /\ emitted' = r.emitted
         /\ pc' = IF r.abort THEN "abort" ELSE "run"
         /\ fed' = fed + Len(in)
  /\ msgs' = [e \in DOMAIN ddr |-> <<>>]
  /\ last' = [op |-> "iqReceived", was |-> [e \in DOMAIN ddr |-> IsEnabled(ddr[e])]]
  /\ UNCHANGED <<ddr_map, rtl>>

Next ==
  /\ \/ \E d \in DOMAIN ddr : Initialize(d)
     \/ \E d \in DOMAIN ddr : Destroy(d)
     \/ \E c \in TunerCenters(rtl.sampleRate) : TunerFqChanged(c)
  /\ UNCHANGED <<decVars, msVars, trVars, czVars, chVars, modVars, gpsVars, locVars>>

Spec == Init /\ [][Next]_vars

RxNext ==
  /\ \/ \E d \in DOMAIN ddr : Initialize(d)
     \/ \E d \in DOMAIN ddr : Destroy(d)
     \/ \E c \in TunerCenters(rtl.sampleRate) : TunerFqChanged(c)
     \/ \E g \in 1..IqMaxAudio : IqReceived(g)
  /\ UNCHANGED <<decVars, msVars, trVars, czVars, chVars, modVars, gpsVars, locVars>>

SpecRx == RxInit /\ [][RxNext]_vars

-----------------------------------------------------------------------------
(* C8: for a decimator of factor M and an input batch of length k*M,       *)
(* k >= 0, decimate produces exactly k outputs whatever the output vector  *)
(* held before the call, and consumes the input in order, M samples per    *)
(* output: the j-th output is computed from a delay line whose bottom M    *)
(* entries are the j-th group of M input samples, the latest at tap 0.     *)
C8_DecimateCount ==
  (d_pc = "done") =>
     LET M == d_dec.dec_fact
         k == Len(d_in) \div M
     IN  /\ Len(d_in) = k * M
         /\ Len(d_out) = k
         /\ \A j \in 1..k : \A tap \in 1..M :
              d_out[j].z[tap] = d_in[(j - 1) * M + (M - tap + 1)]

\* a batch of two groups went through a decimator of factor 3 whose output
\* vector was not empty before the call
C8_Witness ==
  /\ d_pc = "done"
  /\ d_dec.dec_fact = 3
  /\ Len(d_in) = 6
  /\ Len(d_before) = 2
  /\ Len(d_out) = 2

-----------------------------------------------------------------------------
\* the product of the decimation factors of the first k decimators of f
RECURSIVE FactProduct(_, _)
FactProduct(pool, k) ==
  IF k = 0 THEN 1 ELSE FactProduct(pool, k - 1) * pool[PoolNames[k]].dec_fact

\* the names of the coefficient tables met when going down k levels from a
\* FIR sum through the newest entry of each delay line: the stage that made
\* the sum first
RECURSIVE StagesOf(_, _)
StagesOf(x, k) ==
  IF k = 0 THEN <<>> ELSE <<x.k[1][1]>> \o StagesOf(x.z[1], k - 1)

(* C9: for a cascade of k stages, k in 1..5, decFact() is the product of   *)
(* the decimation factors of its stages, and decimate runs the stages in   *)
(* their declared order: an input of length L, a multiple of the product,  *)
(* yields exactly L / decFact() outputs, each a sum of the last stage over *)
(* sums of the stage before it, down to the first stage over the input.    *)
C9_CascadeProduct ==
  (m_pc \in {"idle", "done"}) =>
     LET k == m_ms.stages
         P == FactProduct(m_pool, k)
     IN  /\ MSdecFact(m_pool, m_ms) = P
         /\ (m_pc = "done" /\ Len(m_in) % P = 0) =>
              /\ Len(m_out) * P = Len(m_in)
              /\ \A j \in 1..Len(m_out) :
                   StagesOf(m_out[j], k) = [i \in 1..k |-> PoolNames[k + 1 - i]]

\* a cascade of five stages with overall factor 32 has turned 64 samples
\* into 2
C9_Witness ==
  /\ m_pc = "done"
  /\ m_ms.stages = 5
  /\ MSdecFact(m_pool, m_ms) = 32
  /\ Len(m_in) = 64
  /\ Len(m_out) = 2

-----------------------------------------------------------------------------
(* C10: for a translator at rate R with nonzero offset f the lookup table  *)
(* has length N = R / gcd(R, |f|) (R = N*g where g divides |f| and |f|/g   *)
(* has no factor in common with N), the phase index n satisfies            *)
(* 0 <= n < N, and after K samples since the last setOffset, over any      *)
(* split into batches, n = K mod N, the k-th sample (from 0) having been   *)
(* multiplied by LUT[k mod N] = exp(-j*2*pi*f*(k mod N)/R).                *)
C10_TranslatorPhase ==
  (t_pc \in {"idle", "done"} /\ t_f # 0) =>
     LET R == t_tr.samp_rate
         N == t_tr.exp_lut.size
         g == R \div N
         a == Abs(t_f)
     IN  /\ N >= 1
         /\ N * g = R
         /\ a % g = 0
         /\ \A p \in 2..N : ~(N % p = 0 /\ (a \div g) % p = 0)
         /\ t_tr.n \in 0..(N - 1)
         /\ t_tr.n = t_K % N
         /\ (t_pc = "done") =>
              /\ Len(t_out) = Len(t_in)
              /\ \A i \in 1..Len(t_in) :
                   LET k == t_K - Len(t_in) + i - 1
                   IN  /\ t_out[i] = Mul(t_in[i], LutAt(t_tr, k % N))
                       /\ t_out[i].e = [num |-> -(t_f * (k % N)), den |-> R]

\* a table of 8 entries has wrapped: the phase index is behind the number
\* of samples processed, which were fed in more than one batch
C10_Witness ==
  /\ t_pc = "done"
  /\ t_f = 360000
  /\ t_tr.samp_rate = 960000
  /\ t_tr.exp_lut.size = 8
  /\ Len(t_in) < t_K
  /\ t_K > 8
  /\ t_tr.n = t_K - 8

-----------------------------------------------------------------------------
\* the decimation factors of section 4.4: tuner rate and bandwidth mode
BwTable(rate, bw) ==
  IF rate = 960000
    THEN CASE bw = "BW_WIDE" -> 5  [] bw = "BW_20K" -> 30
           [] bw = "BW_10K"  -> 60 [] bw = "BW_6K"  -> 60
    ELSE CASE bw = "BW_WIDE" -> 15  [] bw = "BW_20K" -> 75
           [] bw = "BW_10K"  -> 150 [] bw = "BW_6K"  -> 150

(* C7: after any sequence of setBw calls on either channelizer variant the *)
(* decimation factor of the active cascade is the table value of the mode  *)
(* requested last (960 kHz: Wide 5, 20 kHz 30, 10 kHz 60, 6 kHz 60;        *)
(* 2.4 MHz: Wide 15, 20 kHz 75, 10 kHz 150, 6 kHz 150), chSampRate() times *)
(* that factor is the tuner rate exactly, and a batch is decimated by it.  *)
C7_BandwidthTable ==
  (z_pc \in {"idle", "done"}) =>
     /\ z_ch.rate \in {960000, 2400000}
     /\ MSdecFact(z_ch.pool, z_ch.dec) = BwTable(z_ch.rate, z_bw)
     /\ ChSampRate(z_ch) * BwTable(z_ch.rate, z_bw) = z_ch.rate
     /\ (z_pc = "done") => Len(z_out) * BwTable(z_ch.rate, z_bw) = Len(z_in)

\* the 960 kHz channelizer was switched to 10 kHz after a batch in another
\* mode, and has decimated a batch of 120 samples to 2
C7_Witness ==
  /\ z_pc = "done"
  /\ z_ch.rate = 960000
  /\ z_bw = "BW_10K"
  /\ z_calls = 2
  /\ Len(z_in) = 120
  /\ z_fed > 120
  /\ Len(z_out) = 2

-----------------------------------------------------------------------------
\* the number of samples in the vectors written to a sink
RECURSIVE Written(_)
Written(sink) ==
  IF sink = <<>> THEN 0 ELSE Len(Head(sink)) + Written(Tail(sink))

(* C1: after Ddr::initialize has succeeded and after every                 *)
(* tunerFqChanged(c), the channel of the DDR is enabled if and only if     *)
(* |fq - c| <= R/2 - 12500 for the tuner rate R, which is 960000 or        *)
(* 2400000: at an offset of exactly +/-(R/2 - 12500) it is enabled, at     *)
(* exactly +/-(R/2 - 12499) disabled.  (Frequencies are in half Hz here.)  *)
C1_EnabledIffInRange ==
  \A d \in DOMAIN ddr :
    (pc = "run" /\ ddr[d].st = "initialized") =>
       LET R    == rtl.sampleRate
           off2 == ddr[d].fq2 - 2 * rtl.centerFq
           dist == IF off2 < 0 THEN -off2 ELSE off2
       IN  /\ R \in {960000, 2400000}
           /\ ddr[d].channel # NoChannel
           /\ ddr[d].channel.enabled <=> (dist <= R - 25000)
           /\ (dist = R - 25000) => ddr[d].channel.enabled
           /\ (dist = R - 24998) => ~ddr[d].channel.enabled

\* a DDR on the 2.4 MHz tuner sits exactly on the upper passband limit
\* after a retune, and is enabled with its translator at 1187500 Hz
C1_Witness ==
  /\ pc = "run"
  /\ rtl.sampleRate = 2400000
  /\ last.op = "tunerFqChanged"
  /\ ddr[1].st = "initialized"
  /\ ddr[1].fq2 - 2 * rtl.centerFq = 2 * 1187500
  /\ ddr[1].channel.enabled
  /\ ddr[1].channel.trans.exp_lut = LutFilled(192, 1187500)

-----------------------------------------------------------------------------
(* C2: DDR names are unique in the registry.  An initialize of a DDR whose *)
(* name the registry already holds returns false with the duplicate-name   *)
(* error and changes neither the registry nor the tuner nor any other DDR: *)
(* Ddr::find(name) returns the DDR that registered the name first, before  *)
(* and after the call.  An initialize that succeeds found the name free    *)
(* and leaves it mapped to its own DDR.                                    *)
C2_DuplicateName ==
  [][\A d \in DOMAIN ddr :
       (ddr[d].st = "constructed" /\ ddr'[d].st \in {"initialized", "failed"}) =>
          /\ (ddr_map[ddr[d].name] # 0) =>
                /\ ddr'[d].st = "failed"
                /\ msgs'[d] = <<"ERROR: name must be unique">>
                /\ ddr_map' = ddr_map
                /\ ddr_map[ddr[d].name] # d
                /\ ddr[ddr_map[ddr[d].name]].st \in {"initialized", "failed"}
                /\ rtl' = rtl
                /\ \A e \in DOMAIN ddr \ {d} : ddr'[e] = ddr[e]
                /\ ddr'[d].channel = NoChannel
          /\ (ddr'[d].st = "initialized") =>
                /\ ddr_map[ddr[d].name] = 0
                /\ ddr_map'[ddr[d].name] = d
    ]_vars

\* both DDRs are named RX1: the first was initialized with success, the
\* initialize of the second has just failed on the name, and the registry
\* still maps RX1 to the first
C2_Witness ==
  /\ ddr[1].name = "RX1" /\ ddr[2].name = "RX1"
  /\ ddr[1].st = "initialized"
  /\ ddr[2].st = "failed"
  /\ last.op = "initialize"
  /\ msgs[2] = <<"ERROR: name must be unique">>
  /\ ddr_map["RX1"] = 1

-----------------------------------------------------------------------------
\* the case of C3: a receiver with FQ = 100025000 and modulation FM, on a
\* 2.4 MHz tuner, whose initialize has succeeded
C3_Case ==
  /\ pc = "run"
  /\ rtl.sampleRate = 2400000
  /\ ddr[1].st = "initialized"
  /\ ddr[1].cfg.FQ = 2 * 100025000
  /\ ddr[1].cfg.MODULATION = ""

(* C3, as amended: for a DDR with FQ = 100025000 on a 2.4 MHz tuner (FM),  *)
(* the notification tunerFqChanged(99000000) gives the offset 1025000 Hz,  *)
(* which does not exceed the passband limit 2400000/2 - 12500 = 1187500:   *)
(* the channel stays enabled, the translator is set to 1025000 Hz, and a   *)
(* later batch still produces audio.  The channel is disabled, and a later *)
(* batch produces no audio and no preDemod event, when the centre is more  *)
(* than 1187500 Hz away from FQ.                                           *)
C3_RetuneWithinPassband ==
  C3_Case =>
     /\ (rtl.centerFq = 99000000) =>
           /\ ddr[1].channel.enabled
           /\ ddr[1].channel.trans.exp_lut = LutFilled(96, 1025000)
           /\ (last.op = "iqReceived") =>
                 /\ Written(emitted[1].sink) \in 1..IqMaxAudio
                 /\ Len(emitted[1].pre) = 1
     /\ (100025000 - rtl.centerFq > 1187500
           \/ rtl.centerFq - 100025000 > 1187500) =>
           /\ ~ddr[1].channel.enabled
           /\ (last.op = "iqReceived") => emitted[1] = NoAudio

\* the tuner went from 100 MHz to 99 MHz and has delivered batches; the
\* last one came out of the enabled channel as audio
C3_Witness ==
  /\ C3_Case
  /\ rtl.centerFq = 99000000
  /\ last.op = "iqReceived"
  /\ fed = 300
  /\ ddr[1].channel.enabled
  /\ Written(emitted[1].sink) = 1

\* C3 as the claim states it: after tunerFqChanged(99000000) the channel is
\* disabled and no audio is produced for a later batch
C3_DisabledAt99MHz ==
  (C3_Case /\ rtl.centerFq = 99000000) =>
     /\ ~ddr[1].channel.enabled
     /\ (last.op = "iqReceived") => emitted[1].sink = <<>>

-----------------------------------------------------------------------------
(* C4: the 'could not fit' warning is written exactly by the calls of      *)
(* tunerFqChanged that take the channel from enabled to disabled: a call   *)
(* that finds the channel disabled and out of range writes nothing (so     *)
(* consecutive out-of-range retunes write one warning in total), a call    *)
(* that brings the channel back in range enables it and writes nothing,    *)
(* and no other operation writes the warning.                              *)
C4_WarningOnTransition ==
  \A d \in DOMAIN ddr :
    (pc = "run" /\ ddr[d].channel # NoChannel) =>
       /\ (msgs[d] = <<"WARNING: Could not fit DDR">>)
             <=> (last.was[d] /\ ~ddr[d].channel.enabled)
       /\ (msgs[d] # <<>>) =>
             /\ msgs[d] = <<"WARNING: Could not fit DDR">>
             /\ last.op \in {"initialize", "tunerFqChanged"}
       /\ (~last.was[d] /\ ddr[d].channel.enabled) => last.op = "tunerFqChanged"

\* a second out-of-range retune in a row: the tuner has moved from one
\* centre out of range to another, the channel was already disabled and
\* the call wrote nothing
C4_Witness ==
  /\ pc = "run"
  /\ last.op = "tunerFqChanged"
  /\ ddr[1].st = "initialized"
  /\ ~last.was[1]
  /\ ~ddr[1].channel.enabled
  /\ msgs[1] = <<>>
  /\ rtl.centerFq = 100025000 + (Limit(rtl.sampleRate) + 1)

-----------------------------------------------------------------------------
(* C5: enable and disable of a channel are idempotent (doing either twice  *)
(* leaves the state that doing it once leaves, and neither changes         *)
(* anything but the enabled flag), and a batch received while the channel  *)
(* is disabled is dropped: nothing is written to the audio sink and no     *)
(* preDemod event is emitted.                                              *)
C5_DisabledDrops ==
  (c_pc = "ready") =>
     /\ ChannelEnable(ChannelEnable(c_ch)) = ChannelEnable(c_ch)
     /\ ChannelDisable(ChannelDisable(c_ch)) = ChannelDisable(c_ch)
     /\ ChannelEnable(c_ch) = [c_ch EXCEPT !.enabled = TRUE]
     /\ ChannelDisable(c_ch) = [c_ch EXCEPT !.enabled = FALSE]
     /\ (c_op = "iq_received" /\ ~c_ch.enabled) =>
           /\ c_sink = <<>>
           /\ c_pre = <<>>

\* a batch has arrived at a channel that was disabled after it had
\* processed an earlier batch
C5_Witness ==
  /\ c_pc = "ready"
  /\ c_op = "iq_received"
  /\ ~c_ch.enabled
  /\ c_calls = 2
  /\ Len(c_in) > 0
  /\ c_fed > Len(c_in)
  /\ c_sink = <<>>

-----------------------------------------------------------------------------
(* C6: the audio of a channel is at exactly 16 kHz for both tuner rates    *)
(* (960000, 2400000) and the three modulations (FM, WBFM, AM): an enabled  *)
(* channel that receives a batch of L samples, L a multiple of             *)
(* tunerRate / 16000, writes exactly L * 16000 / tunerRate audio samples   *)
(* to its sink, in one write, after one preDemod event that carries the    *)
(* L / decFact samples of the channelizer; the FM demodulator uses its     *)
(* wideband stage (6:1 at 192 kHz, 5:1 at 160 kHz) exactly for WBFM.       *)
C6_AudioRate ==
  (c_pc = "ready" /\ c_op = "iq_received" /\ c_ch.enabled) =>
     LET R == c_ch.sample_rate
         F == MSdecFact(c_ch.channelizer.pool, c_ch.channelizer.dec)
     IN  /\ R \in {960000, 2400000}
         /\ c_mod \in Modulations
         /\ Len(c_in) % (R \div 16000) = 0
         /\ Len(c_sink) = 1
         /\ Written(c_sink) * R = Len(c_in) * 16000
         /\ Len(c_pre) = 1
         /\ Len(c_pre[1]) * F = Len(c_in)
         /\ (c_mod = "MOD_AM") => (R \div F = 16000 /\ c_ch.demod = "am_demod")
         /\ (c_mod = "MOD_FM") =>
               /\ R \div F = 32000
               /\ c_ch.demod = "fm_demod" /\ ~c_ch.fm_demod.wb_mode
         /\ (c_mod = "MOD_WBFM") =>
               /\ c_ch.demod = "fm_demod" /\ c_ch.fm_demod.wb_mode
               /\ c_ch.fm_demod.audio_dec_wb.dec_fact * 32000 = R \div F
               /\ c_ch.fm_demod.audio_dec_wb.dec_fact = (IF R = 960000 THEN 6 ELSE 5)

\* a WBFM channel on the 2.4 MHz tuner has turned a batch of 300 samples
\* into 2 audio samples
C6_Witness ==
  /\ c_pc = "ready"
  /\ c_op = "iq_received"
  /\ c_ch.enabled
  /\ c_ch.sample_rate = 2400000
  /\ c_mod = "MOD_WBFM"
  /\ Len(c_in) = 300
  /\ Written(c_sink) = 2

-----------------------------------------------------------------------------
(* C11: a translator whose offset is 0 has an empty lookup table and is a  *)
(* passthrough: the phase index stays 0, and the output of every batch is  *)
(* the input, sample for sample and in the same order, whatever the output *)
(* vector held before the call.                                            *)
C11_ZeroOffsetPassthrough ==
  (t_f = 0) =>
     /\ t_tr.exp_lut.size = 0
     /\ t_tr.n = 0
     /\ (t_pc = "done") => t_out = t_in

\* a translator at offset 0 has passed on a batch of three samples after
\* seven earlier ones
C11_Witness ==
  /\ t_f = 0
  /\ t_pc = "done"
  /\ Len(t_in) = 3
  /\ t_K = 10
  /\ t_out = t_in

-----------------------------------------------------------------------------
(* C12: Channel::setFqOffset(f) is trans.setOffset(f).  Every setOffset    *)
(* call leaves the phase index at 0 and the lookup table of offset f, the  *)
(* state of a translator newly constructed with f, also when f is the      *)
(* offset the translator already had and samples were processed since;     *)
(* and a second setOffset(f) then changes nothing.                         *)
C12_SetOffsetIdempotent ==
  (t_pc = "idle") =>
     /\ t_tr.n = 0
     /\ t_tr = TranslateNew(t_tr.samp_rate, t_f)
     /\ setOffset(t_tr, t_f) = t_tr
     /\ ChannelSetFqOffset([trans |-> t_tr], t_f).trans = t_tr

\* setOffset was called with the offset the translator already had, after
\* samples had moved the phase index away from 0
C12_Witness ==
  /\ t_pc = "idle"
  /\ t_prev.called
  /\ t_prev.f = t_f
  /\ t_f # 0
  /\ t_prev.n > 0
  /\ t_tr.n = 0

-----------------------------------------------------------------------------
(* C13: for every modulation X of FM, WBFM and AM and either tuner rate,   *)
(* setModulation(X) called on an initialized channel right after           *)
(* setModulation(X) changes nothing: the cascade selected, the active      *)
(* demodulator, the gain and the wideband stage of the FM demodulator and  *)
(* all delay lines are those the first call left, and the call does not    *)
(* stop the program.  The output of the batches that follow is a function  *)
(* of this state and of the batches.                                       *)
C13_SetModulationTwice ==
  [][(c_pc = "ready" /\ s_last.op = "setModulation" /\ s_last'.op = "setModulation"
        /\ c_mod' = c_mod)
       => (c_ch' = c_ch /\ c_pc' = "ready")]_vars

\* WBFM was set twice in a row on the channel of a 960 kHz tuner that had
\* processed a batch before
C13_Witness ==
  /\ c_pc = "ready"
  /\ s_last.op = "setModulation"
  /\ s_last.rep
  /\ c_mod = "MOD_WBFM"
  /\ c_ch.sample_rate = 960000
  /\ c_fed > 0

-----------------------------------------------------------------------------
\* the cascade of bandwidth bw of the channelizer of a tuner of rate R
CascadeOfBw(R, bw) == IF R = 960000 THEN Cascade960(bw) ELSE Cascade2400(bw)

\* the gains the audio decimator of an FM demodulator applies to its base
\* coefficients
GainsOf(fm) == {fm.audio_dec.coeff[t].g : t \in 1..fm.audio_dec.taps}

(* C14: after any sequence of setModulation calls on an initialized        *)
(* channel the state is that of the modulation requested last.  FM: the    *)
(* 20 kHz cascade, the FM demodulator active, its gain that of a maximum   *)
(* deviation of 5 kHz at chSampRate() = 32000, no wideband stage.  WBFM:   *)
(* the Wide cascade, the FM demodulator active, its gain that of 75 kHz at *)
(* chSampRate() (192000 on the 960 kHz tuner, 160000 on the 2.4 MHz one),  *)
(* the wideband stage bringing that rate to 32000.  AM: the 10 kHz         *)
(* cascade, chSampRate() = 16000, the AM demodulator active.               *)
C14_ModulationState ==
  (c_pc = "ready") =>
     LET R  == c_ch.sample_rate
         z  == c_ch.channelizer
         fm == c_ch.fm_demod
     IN  /\ c_mod \in Modulations
         /\ (c_mod = "MOD_FM") =>
               /\ z.dec = CascadeOfBw(R, "BW_20K")
               /\ ChSampRate(z) = 32000
               /\ c_ch.demod = "fm_demod"
               /\ GainsOf(fm) = {[samp_rate |-> 32000, max_dev |-> 5000]}
               /\ ~fm.wb_mode
         /\ (c_mod = "MOD_WBFM") =>
               /\ z.dec = CascadeOfBw(R, "BW_WIDE")
               /\ ChSampRate(z) = (IF R = 960000 THEN 192000 ELSE 160000)
               /\ c_ch.demod = "fm_demod"
               /\ GainsOf(fm) = {[samp_rate |-> ChSampRate(z), max_dev |-> 75000]}
               /\ fm.wb_mode
               /\ fm.audio_dec_wb.dec_fact * 32000 = ChSampRate(z)
         /\ (c_mod = "MOD_AM") =>
               /\ z.dec = CascadeOfBw(R, "BW_10K")
               /\ ChSampRate(z) = 16000
               /\ c_ch.demod = "am_demod"

\* FM was requested on the 2.4 MHz tuner after a batch and after WBFM, whose
\* wideband stage is still set up
C14_Witness ==
  /\ c_pc = "ready"
  /\ s_last.op = "setModulation"
  /\ c_mod = "MOD_FM"
  /\ c_ch.sample_rate = 2400000
  /\ c_fed > 0
  /\ c_ch.fm_demod.audio_dec_wb.dec_fact = 5
  /\ c_ch.demod = "fm_demod"

-----------------------------------------------------------------------------
(* C15: Channel::initialize succeeds exactly for the tuner rates 960000    *)
(* and 2400000: it returns true, the channelizer is the variant of that    *)
(* rate and the modulation is FM (the 20 kHz cascade, the FM demodulator   *)
(* active); for any other rate it returns false and the channel has no     *)
(* channelizer.                                                            *)
C15_InitializeByRate ==
  (s_last.op = "initialize") =>
     LET R == c_ch.sample_rate
         z == c_ch.channelizer
     IN  IF R \in {960000, 2400000}
           THEN /\ c_pc = "ready"
                /\ z.rate = R
                /\ z.pool = (IF R = 960000 THEN Pool960 ELSE Pool2400)
                /\ z.dec = CascadeOfBw(R, "BW_20K")
                /\ c_ch.demod = "fm_demod"
                /\ c_mod = "MOD_FM"
           ELSE /\ c_pc = "failed"
                /\ z = NoChannelizer
                /\ c_ch.demod = NoDemod

\* initialize has not returned for the rate 2400000: the delete of the
\* pointer that the constructor of Channelizer2400 never set has stopped
\* the program
C15_Stopped ==
  /\ s_last.op = "initialize"
  /\ c_ch.sample_rate = 2400000
  /\ c_pc = "abort"

-----------------------------------------------------------------------------
\* the diagnostics of the configuration faults: FQ or WBRX missing, the
\* tuner rate unsupported, MODULATION unknown
ConfigFaults ==
  {<<"ERROR: FQ not set">>, <<"ERROR: WBRX not set">>,
   <<"ERROR: Could not initialize channel">>, <<"ERROR: Unknown modulation">>}

(* C16: when Ddr::initialize has returned false because of a               *)
(* configuration fault (FQ or WBRX missing, tuner rate unsupported,        *)
(* MODULATION unknown), the name of the DDR is not in the registry         *)
(* (Ddr::find(name) does not return the DDR) and the DDR is not            *)
(* registered as a listener of the tuner.                                  *)
C16_FaultLeavesNothing ==
  \A d \in DOMAIN ddr :
    (last.op = "initialize" /\ ddr[d].st = "failed" /\ msgs[d] \in ConfigFaults)
      => /\ DdrFind(ddr_map, ddr[d].name) # d
         /\ d \notin rtl.ddrs

\* initialize of a DDR whose MODULATION is unknown has returned false, and
\* the DDR is in the registry under its name and among the listeners of the
\* tuner
C16_LeftBehind ==
  \E d \in DOMAIN ddr :
    /\ last.op = "initialize"
    /\ ddr[d].st = "failed"
    /\ msgs[d] = <<"ERROR: Unknown modulation">>
    /\ DdrFind(ddr_map, ddr[d].name) = d
    /\ d \in rtl.ddrs

-----------------------------------------------------------------------------
\* the position of statement w in the sequence done, 0 when it is not there
PlaceOf(done, w) ==
  IF \E i \in 1..Len(done) : done[i] = w
    THEN CHOOSE i \in 1..Len(done) : done[i] = w
    ELSE 0

(* C17: the destructor of a DDR takes it out of the tuner's listener set   *)
(* before it releases the channel, and erases its name from the registry   *)
(* between the two; when it has returned the DDR is neither registered     *)
(* with the tuner nor connected to its batches and Ddr::find(name) is      *)
(* null; and from then on no tunerFqChanged and no batch reaches it.       *)
C17_DestroyOrder ==
  [][\A d \in DOMAIN ddr :
       /\ Destroy(d) =>
            LET r == DdrDestroy(ddr[d], d, ddr_map, rtl.ddrs, rtl.iq)
                u == PlaceOf(r.done, "unregisterDdr")
                e == PlaceOf(r.done, "erase")
                c == PlaceOf(r.done, "delete channel")
            IN  /\ c = Len(r.done)
                /\ (d \in rtl.ddrs) => (0 < u /\ u < c)
                /\ (e > 0) => (u < e /\ e < c)
                /\ (DdrFind(ddr_map, ddr[d].name) # 0) => e > 0
                /\ d \notin rtl'.ddrs
                /\ d \notin rtl'.iq
                /\ DdrFind(ddr_map', ddr[d].name) = 0
       /\ (ddr[d].st = "destroyed") =>
            /\ d \notin rtl'.ddrs
            /\ d \notin rtl'.iq
            /\ DdrFind(ddr_map', ddr[d].name) # d
            /\ ddr'[d] = ddr[d]
            /\ msgs'[d] = <<>>
            /\ emitted'[d] = NoAudio]_vars

\* an initialized DDR that was registered with the tuner and connected to
\* its batches has been destroyed, and the tuner was retuned afterwards
C17_Witness ==
  \E d \in DOMAIN ddr :
    /\ ddr[d].st = "destroyed"
    /\ last.op = "tunerFqChanged"
    /\ DdrFind(ddr_map, ddr[d].name) = 0
    /\ rtl.ddrs # {}
    /\ d \notin rtl.ddrs

-----------------------------------------------------------------------------
\* the value found by going down from x along path: "z" is the newest entry
\* of the delay line of a FIR sum, any other step the field of that name
RECURSIVE Descend(_, _)
Descend(x, path) ==
  IF path = <<>> THEN x
  ELSE Descend(IF Head(path) = "z" THEN x.z[1] ELSE x[Head(path)], Tail(path))

\* from an audio sample to the channelized sample it was made from last
AudioPath(ch) ==
  IF ch.demod = "fm_demod"
    THEN (IF ch.fm_demod.wb_mode THEN <<"z", "z">> ELSE <<"z">>)
           \o <<"samp", "norm">>
    ELSE <<"am">>

\* from a channelized sample to the tuner sample it was made from last
TunerPath(ch) ==
  [i \in 1..ch.channelizer.dec.stages |-> "z"]
    \o (IF ch.trans.exp_lut.size > 0 THEN <<"s">> ELSE <<>>)

(* C18: a batch received by an enabled channel is processed to completion  *)
(* within the call: the preDemod event is emitted exactly once, with the   *)
(* batch the channelizer made of the input, before the audio of the batch  *)
(* is written to the sink in one write; audio sample j is made from the    *)
(* samples of the preDemod batch up to its j-th share, and those from the  *)
(* tuner samples up to the j-th share of this batch, which follow all      *)
(* samples of the batches before: audio is written in the order of the     *)
(* I/Q samples it was made from, batch after batch.                        *)
C18_BatchOrder ==
  [][(c_pc = "ready" /\ c_ch.enabled /\ c_op' = "iq_received" /\ c_pc' = "ready")
       => LET r  == ChannelIqReceived(c_ch, c_in')
              L  == Len(c_in')
              A  == Written(c_sink')
              ap == AudioPath(c_ch')
              tp == TunerPath(c_ch')
          IN  /\ r.order = <<"preDemod", "sinkWriteSamples">>
              /\ c_pre' = r.pre /\ c_sink' = r.sink
              /\ Len(c_pre') = 1 /\ Len(c_sink') = 1
              /\ L > 0 /\ A > 0
              /\ c_fed' = c_fed + L
              /\ \A i \in 1..L : c_in'[i] = c_fed + i
              /\ Len(c_pre'[1]) % A = 0
              /\ L % Len(c_pre'[1]) = 0
              /\ \A j \in 1..Len(c_pre'[1]) :
                   Descend(c_pre'[1][j], tp) = c_fed + j * (L \div Len(c_pre'[1]))
              /\ \A j \in 1..A :
                   /\ Descend(c_sink'[1][j], ap)
                        = c_pre'[1][j * (Len(c_pre'[1]) \div A)]
                   /\ Descend(c_sink'[1][j], ap \o tp) = c_fed + j * (L \div A)]_vars

\* a WBFM channel with a frequency offset has received a second batch, of
\* two audio samples
C18_Witness ==
  /\ c_pc = "ready"
  /\ c_op = "iq_received"
  /\ c_ch.enabled
  /\ c_mod = "MOD_WBFM"
  /\ c_ch.trans.exp_lut.size > 0
  /\ c_calls = 2
  /\ c_fed > Len(c_in)
  /\ Len(c_sink) = 1
  /\ Written(c_sink) = 1

-----------------------------------------------------------------------------
(* C19: a violation of the programming contract stops the program in an    *)
(* assertion and leaves no degraded output.  iq_received on a batch that   *)
(* brings to some stage of the cascade a number of samples that is not a   *)
(* multiple of the factor of that stage (the length of the batch is not a  *)
(* multiple of the product of the factors) stops, and only then; the       *)
(* vector the stopping stage was to fill is as it was passed to it (the    *)
(* empty local vector for a stage before the last, the vector of the       *)
(* caller for the last) and no preDemod event is emitted.  setBw with a value that is none of Wide, 20 kHz, 10 kHz and   *)
(* 6 kHz stops, and only then, and leaves no cascade selected.             *)
C19_ContractViolationAborts ==
  [][/\ (z_pc # "abort" /\ z_calls' = z_calls + 1) =>
          LET P == MSdecFact(z_ch.pool, z_ch.dec)
              Inner == PartProduct(z_ch.pool, StageNames(z_ch.dec),
                                   z_ch.dec.stages - 1)
          IN  /\ (Len(z_in') % P # 0) <=> (z_pc' = "abort")
              /\ (z_pc' = "abort") =>
                    /\ z_pre' = <<>>
                    /\ z_out' = IF Len(z_in') % Inner # 0 THEN <<>> ELSE z_out
              /\ (z_pc' = "done") => Len(z_out') * P = Len(z_in')
     /\ (z_pc # "abort" /\ z_calls' = z_calls) =>
          /\ (z_bw' \notin Bandwidths) <=> (z_pc' = "abort")
          /\ (z_pc' = "abort") => z_ch'.dec = NullMS]_vars

\* a batch of 15 samples has stopped the 20 kHz cascade of the 960 kHz
\* channelizer, whose third stage halves the rate
C19_Witness ==
  /\ z_pc = "abort"
  /\ z_ch.rate = 960000
  /\ z_bw = "BW_20K"
  /\ Len(z_in) = 15
  /\ z_pre = <<>>

-----------------------------------------------------------------------------
(* C20: M and T of a decimator after construction.  DecShape is the pair   *)
(* of them; a channel holds the audio decimators of its two demodulators,  *)
(* the wideband audio decimator of the FM demodulator and, once            *)
(* initialized, the decimators of its channelizer.                         *)
DecShape(d) == <<d.dec_fact, d.taps>>

PoolShapes(pool) == [n \in DOMAIN pool |-> DecShape(pool[n])]

\* the decimators constructed with parameters
BuiltShapes(ch) ==
  [fm_audio_dec |-> DecShape(ch.fm_demod.audio_dec),
   am_audio_dec |-> DecShape(ch.am_demod.audio_dec),
   pool         |-> PoolShapes(ch.channelizer.pool)]

\* every decimator of the channel
AllShapes(ch) ==
  {DecShape(ch.fm_demod.audio_dec), DecShape(ch.fm_demod.audio_dec_wb),
   DecShape(ch.am_demod.audio_dec)}
    \cup {DecShape(ch.channelizer.pool[n]) : n \in DOMAIN ch.channelizer.pool}

\* C20 as stated: for every decimator of a channel, the wideband audio
\* decimator of the FM demodulator included, no operation changes M or T
\* after construction, and T >= M.
C20_ParamsFixed ==
  [][(c_pc' # "abort") =>
       /\ \A s \in AllShapes(c_ch') : s[2] >= s[1]
       /\ DecShape(c_ch'.fm_demod.audio_dec_wb)
            = DecShape(c_ch.fm_demod.audio_dec_wb)
       /\ BuiltShapes(c_ch').fm_audio_dec = BuiltShapes(c_ch).fm_audio_dec
       /\ BuiltShapes(c_ch').am_audio_dec = BuiltShapes(c_ch).am_audio_dec
       /\ (c_pc = "ready") => BuiltShapes(c_ch').pool = BuiltShapes(c_ch).pool]_vars

\* the shape setDemodParams gives the wideband audio decimator in a channel
\* of the given tuner rate: 192 kHz to 32 kHz, or 160 kHz to 32 kHz
WbShape(sample_rate) ==
  IF sample_rate = 960000 THEN <<6, Taps(6)>> ELSE <<5, Taps(5)>>

\* C20, amended: no operation changes M or T of a decimator constructed
\* with parameters, and T >= M for every decimator.  The wideband audio
\* decimator of the FM demodulator is constructed without parameters, with
\* M = T = 0; the first setModulation(MOD_WBFM) gives it the factor and the
\* taps of the wide rate of the channel, which it keeps from then on.
C20_ParamsFixedButWideband ==
  [][(c_pc' # "abort") =>
       /\ \A s \in AllShapes(c_ch') : s[2] >= s[1]
       /\ BuiltShapes(c_ch').fm_audio_dec = BuiltShapes(c_ch).fm_audio_dec
       /\ BuiltShapes(c_ch').am_audio_dec = BuiltShapes(c_ch).am_audio_dec
       /\ (c_pc = "ready") => BuiltShapes(c_ch').pool = BuiltShapes(c_ch).pool
       /\ DecShape(c_ch'.fm_demod.audio_dec_wb) =
            IF s_last'.op = "setModulation" /\ c_mod' = "MOD_WBFM"
              THEN WbShape(c_ch.sample_rate)
              ELSE DecShape(c_ch.fm_demod.audio_dec_wb)
       /\ DecShape(c_ch.fm_demod.audio_dec_wb)
            \in {<<0, 0>>, WbShape(c_ch.sample_rate)}]_vars

\* wideband FM has been selected, a batch has been demodulated and narrow
\* FM selected again: the wideband audio decimator no longer is as
\* constructed
C20_Witness ==
  /\ c_pc = "ready"
  /\ s_last.op = "setModulation"
  /\ c_mod = "MOD_FM"
  /\ DecShape(c_ch.fm_demod.audio_dec_wb) = WbShape(c_ch.sample_rate)
  /\ DecShape(c_ch.fm_demod.audio_dec) = <<2, Taps(2)>>

-----------------------------------------------------------------------------
(* C21: setBw leaves the decimators of the channelizer as they are.  On a  *)
(* setBw step nothing of the channelizer but the active cascade changes:   *)
(* the delay line and the coefficients of every decimator it owns are the  *)
(* same after the call.  So the first stage, which every cascade shares,   *)
(* still holds the last sample it was fed, whatever bandwidth changes      *)
(* followed the batch.                                                     *)
C21_SetBwKeepsDelayLines ==
  [][(z_pc # "abort" /\ z_pc' # "abort") =>
       /\ (z_calls' = z_calls) =>
             /\ z_ch'.pool = z_ch.pool
             /\ z_ch' = [z_ch EXCEPT !.dec = z_ch'.dec]
       /\ (z_fed' > 0) =>
             \E t \in 1..z_ch'.pool[z_ch'.dec.d1].taps :
                z_ch'.pool[z_ch'.dec.d1].p_Z[t] = z_fed']_vars

\* the bandwidth was changed to 6 kHz after a batch: the first stage still
\* holds the last sample of the batch
C21_Witness ==
  /\ z_pc = "idle"
  /\ z_bw = "BW_6K"
  /\ z_fed > 0
  /\ \E t \in 1..z_ch.pool[z_ch.dec.d1].taps :
        z_ch.pool[z_ch.dec.d1].p_Z[t] = z_fed

-----------------------------------------------------------------------------
(* C22: setGain changes the working coefficients only.  After every step   *)
(* the base coefficients are the table the decimator was constructed with  *)
(* and the working coefficients are the base coefficients scaled by the    *)
(* last gain alone (the base coefficients themselves when setGain was      *)
(* never called); every output of a decimate call is a sum over the        *)
(* working coefficients in force when the call was made; and a step that   *)
(* is no decimate call, a setGain step among them, leaves the delay line,  *)
(* M and T as they are.                                                    *)
C22_SetGainCoefficientsOnly ==
  [][(d_pc' # "abort") =>
       /\ d_dec'.set_coeff = CoeffTable("c", d_dec'.taps)
       /\ d_dec'.coeff =
            IF d_gain'.set
              THEN [t \in 1..d_dec'.taps |->
                      Scale(d_dec'.set_coeff[t], d_gain'.g)]
              ELSE d_dec'.set_coeff
       /\ (d_pc' = "done") =>
             /\ d_gain' = d_gain
             /\ \A i \in 1..Len(d_out') : d_out'[i].k = d_dec.coeff
       /\ (d_pc' = "idle") =>
             /\ d_dec'.p_Z = d_dec.p_Z
             /\ d_dec'.dec_fact = d_dec.dec_fact
             /\ d_dec'.taps = d_dec.taps
             /\ d_dec'.set_coeff = d_dec.set_coeff]_vars

\* with 10 dB as the last gain set, a decimator of factor 2 has been fed
\* four samples and its last call has made one output with the scaled
\* coefficients
C22_Witness ==
  /\ d_pc = "done"
  /\ d_gain = [set |-> TRUE, g |-> 10]
  /\ d_dec.dec_fact = 2
  /\ d_fed = 4
  /\ Len(d_out) = 1
  /\ d_out[1].k[1] = Scale(<<"c", 1>>, 10)

-----------------------------------------------------------------------------
(* C23: the translator follows the tuner while the channel fits.  On a     *)
(* tunerFqChanged(c) step, for every DDR that has a channel: when fq - c   *)
(* is in range the translator is the one setOffset(fq - c) makes, with its *)
(* table for fq - c and its phase index at 0, and the channel is enabled;  *)
(* when it is out of range the translator is as it was, table and phase    *)
(* index included, and the channel is disabled.  After every step the      *)
(* translator of an enabled channel has the table of fq minus the centre   *)
(* frequency the tuner was last set to.                                    *)
C23_TranslatorFollowsTuner ==
  [][\A d \in DOMAIN ddr :
       (pc' = "run" /\ ddr'[d].channel # NoChannel) =>
          LET R == rtl'.sampleRate
              new_offset2 == ddr'[d].fq2 - 2 * rtl'.centerFq
              follows == TranslateNew(R, IntOfHalves(new_offset2))
          IN  /\ (last'.op = "tunerFqChanged" /\ ddr[d].channel # NoChannel) =>
                   IF OutOfRange(new_offset2, R)
                     THEN /\ ddr'[d].channel.trans = ddr[d].channel.trans
                          /\ ~ddr'[d].channel.enabled
                     ELSE /\ ddr'[d].channel.trans = follows
                          /\ ddr'[d].channel.enabled
              /\ ddr'[d].channel.enabled =>
                   ddr'[d].channel.trans.exp_lut = follows.exp_lut]_vars

\* after a batch that left the phase index away from 0, the tuner was set
\* to a centre frequency that fits and the translator starts again at 0
C23_Witness ==
  /\ pc = "run"
  /\ last.op = "tunerFqChanged"
  /\ fed > 0
  /\ IsEnabled(ddr[1])
  /\ ddr[1].channel.trans.exp_lut.size > 1
  /\ ddr[1].channel.trans.n = 0
  /\ emitted[1] = NoAudio

-----------------------------------------------------------------------------
(* C24: a registry entry is removed only by the destruction of the DDR     *)
(* that registered it.  The destruction of a DDR that is not the one its   *)
(* name is mapped to (its initialize failed with the duplicate-name error, *)
(* or was never called) leaves the registry as it is, so find(name) still  *)
(* returns the first DDR of the name; and no name is mapped to a destroyed *)
(* DDR.                                                                    *)
C24_RegistryEntryOwned ==
  [][/\ \A d \in DOMAIN ddr :
          (/\ ddr[d].st # "destroyed"
           /\ ddr'[d].st = "destroyed"
           /\ DdrFind(ddr_map, ddr[d].name) # d) => ddr_map' = ddr_map
     /\ \A n \in Names :
          DdrFind(ddr_map', n) # 0 => ddr'[DdrFind(ddr_map', n)].st # "destroyed"]_vars

\* the second DDR of the name RX1 failed with the duplicate-name error and
\* was destroyed: the first, initialized and alive, is no longer found
C24_FirstNoLongerFound ==
  /\ last.op = "destroy"
  /\ ddr[1].st = "initialized"
  /\ ddr[2].st = "destroyed"
  /\ ddr[2].name = ddr[1].name
  /\ DdrFind(ddr_map, ddr[1].name) = 0

-----------------------------------------------------------------------------
(* C25: the pointer to the active cascade is never used uninitialised.  In *)
(* every state of either channelizer, the first setBw of the constructor   *)
(* included, dec is null or the cascade the last setBw created for its     *)
(* bandwidth.                                                              *)
C25_CascadeInitialised ==
  \/ z_ch.dec = NullMS
  \/ z_ch.dec = IF z_ch.rate = 960000 THEN Cascade960(z_bw)
                ELSE Cascade2400(z_bw)

\* the first setBw of Channelizer2400 has deleted the pointer its
\* constructor left uninitialised
C25_WildDeleted ==
  /\ z_ch.rate = 2400000
  /\ z_ch.dec = WildMS
  /\ z_pc = "abort"
  /\ z_calls = 0

-----------------------------------------------------------------------------
(* C26: a batch received while the channel is disabled changes nothing of  *)
(* the pipeline.  On an iq_received step of a disabled channel the channel *)
(* is the same after the call as before it: the phase index of the         *)
(* translator, the delay lines of the channelizer and of the audio         *)
(* decimators of both demodulators and the previous sample of the FM       *)
(* demodulator; nothing is emitted and the call returns.                   *)
C26_DisabledBatchNoState ==
  [][(c_pc = "ready" /\ ~c_ch.enabled /\ c_calls' = c_calls + 1) =>
       /\ c_ch'.trans.n = c_ch.trans.n
       /\ c_ch'.channelizer.pool = c_ch.channelizer.pool
       /\ c_ch'.fm_demod = c_ch.fm_demod
       /\ c_ch'.am_demod = c_ch.am_demod
       /\ c_ch' = c_ch
       /\ c_pre' = <<>> /\ c_sink' = <<>>
       /\ c_pc' = "ready"]_vars

\* a batch has been dropped by a disabled channel that had processed a
\* batch before: the first stage of its channelizer holds a sample of that
\* batch, older than the batch dropped
C26_Witness ==
  /\ c_pc = "ready"
  /\ c_op = "iq_received"
  /\ ~c_ch.enabled
  /\ c_calls >= 2
  /\ c_ch.trans.exp_lut.size = 0
  /\ c_ch.channelizer.pool[c_ch.channelizer.dec.d1].p_Z[1] > 0
  /\ c_ch.channelizer.pool[c_ch.channelizer.dec.d1].p_Z[1] < c_in[1]
  /\ c_sink = <<>>

-----------------------------------------------------------------------------
(* GpsdTcpClient, GpsdTcpClient.cpp.  The client is the connection con     *)
(* ("closed", "connecting": connect() was called and neither connected nor *)
(* disconnected has been emitted since, "connected") and its two timers,   *)
(* enabled or not.  With them it carries what the handler that ran last    *)
(* did: the messages it wrote in full, the diagnostics, the signals it     *)
(* emitted and the number of connect() calls it made.                      *)

\* con->connect()
TcpConnect(G) == [G EXCEPT !.con = "connecting", !.connects = @ + 1]

\* con->disconnect(): the connection is closed.  The signal disconnected
\* tells of a connection that was lost or could not be made; it is not
\* emitted for a disconnection the client ordered.
TcpDisconnect(G) == [G EXCEPT !.con = "closed"]

\* the outcomes of con->write(msg, strlen(msg)): all of the message was
\* written, fewer bytes were, or the write failed (a negative result)
Writes == {"all", "short", "error"}

\* GpsdTcpClient(server, port), lines 118-136
GpsdTcpClientNew ==
  TcpConnect([con |-> "closed", reconnect_timer |-> FALSE,
              poll_timer |-> FALSE, written |-> <<>>, log |-> <<>>,
              signals |-> <<>>, connects |-> 0])

\* sendMsg(msg), lines 161-180, when the write gives w
sendMsg_keepopen(G, msg, w) ==
  IF G.con # "connected" THEN G
  ELSE IF w = "error"
    THEN [G EXCEPT !.log = Append(@, "ERROR: TCP write error")]
  ELSE IF w = "short"
    THEN [G EXCEPT !.log = Append(@, "ERROR: TCP transmit buffer overflow")]
  ELSE [G EXCEPT !.written = Append(@, msg)]
sendMsg(G, msg, w) ==
  IF G.con # "connected" THEN G
  ELSE IF w = "error"
    THEN [G EXCEPT !.log = Append(@, "ERROR: TCP write error")]
  ELSE IF w = "short"
    THEN TcpDisconnect(
           [G EXCEPT !.log = Append(@, "ERROR: TCP transmit buffer overflow")])
  ELSE [G EXCEPT !.written = Append(@, msg)]

\* tcpConnected(), lines 183-194, when the two writes give w1 and w2
tcpConnected(G, w1, w2) ==
  [sendMsg(sendMsg([G EXCEPT !.log = Append(@, "Connected to Gpsd")],
                   "?WATCH", w1),
           "?POLL", w2)
     EXCEPT !.poll_timer = TRUE]

\* tcpDataReceived(con, buf, count), lines 198-270: gpsdDataReceived is
\* emitted when the message says "active":1
tcpDataReceived(G, active) ==
  IF active THEN [G EXCEPT !.signals = Append(@, "gpsdDataReceived")] ELSE G

\* tcpDisconnected(con, reason), lines 273-279
tcpDisconnected_polling(G) ==
  [G EXCEPT !.log = Append(@, "WARNING: Disconnected from Gpsd"),
            !.reconnect_timer = TRUE]
tcpDisconnected(G) ==
  [G EXCEPT !.log = Append(@, "WARNING: Disconnected from Gpsd"),
            !.reconnect_timer = TRUE,
            !.poll_timer = FALSE]

\* reconnectGpsd(t), lines 282-287
reconnectGpsd(G) ==
  TcpConnect([G EXCEPT !.reconnect_timer = FALSE,
                       !.log = Append(@, "WARNING: Trying to reconnect")])

\* pollTimeout(t), lines 290-294: reset() starts the timer again
pollTimeout(G, w) == sendMsg([G EXCEPT !.poll_timer = TRUE], "?POLL", w)

-----------------------------------------------------------------------------
(* The gpsd client in its event loop.  The network makes or refuses the    *)
(* connection asked for, loses a connection made and delivers messages;    *)
(* an enabled timer expires.                                               *)

GpsMaxAttempts == 3
GpsMaxPolls == 3

\* a counter that stops at its bound
UpTo(n, by, max) == IF n + by > max THEN max ELSE n + by

\* the client as a handler finds it: nothing done yet
Entering(G) ==
  [G EXCEPT !.written = <<>>, !.log = <<>>, !.signals = <<>>, !.connects = 0]

GpsInit ==
  /\ g_cl = GpsdTcpClientNew
  /\ g_last = "GpsdTcpClient"
  /\ g_attempts = 1
  /\ g_polls = 0
  /\ DecIdle /\ MsIdle /\ TrIdle /\ CzIdle /\ ChIdle /\ DdrIdle /\ ModIdle
  /\ LocIdle

\* the connection asked for is made: con emits connected
GpsConnected(w1, w2) ==
  /\ g_cl.con = "connecting"
  /\ g_cl' = tcpConnected([Entering(g_cl) EXCEPT !.con = "connected"], w1, w2)
  /\ g_last' = "tcpConnected"
  /\ UNCHANGED <<g_attempts, g_polls>>

\* the connection asked for cannot be made: con emits disconnected
GpsConnectFailed ==
  /\ g_cl.con = "connecting"
  /\ g_cl' = tcpDisconnected([Entering(g_cl) EXCEPT !.con = "closed"])
  /\ g_last' = "tcpDisconnected"
  /\ UNCHANGED <<g_attempts, g_polls>>

\* the connection is lost: con emits disconnected
GpsConnectionLost ==
  /\ g_cl.con = "connected"
  /\ g_cl' = tcpDisconnected([Entering(g_cl) EXCEPT !.con = "closed"])
  /\ g_last' = "tcpDisconnected"
  /\ UNCHANGED <<g_attempts, g_polls>>

\* a message of gpsd arrives: con emits dataReceived
GpsDataReceived(active) ==
  /\ g_cl.con = "connected"
  /\ g_cl' = tcpDataReceived(Entering(g_cl), active)
  /\ g_last' = "tcpDataReceived"
  /\ UNCHANGED <<g_attempts, g_polls>>

\* reconnect_timer expires
GpsReconnectExpired ==
  /\ g_cl.reconnect_timer
  /\ g_cl' = reconnectGpsd(Entering(g_cl))
  /\ g_last' = "reconnectGpsd"
  /\ g_attempts' = UpTo(g_attempts, g_cl'.connects, GpsMaxAttempts)
  /\ UNCHANGED g_polls

\* poll_timer expires
GpsPollExpired(w) ==
  /\ g_cl.poll_timer
  /\ g_cl' = pollTimeout(Entering(g_cl), w)
  /\ g_last' = "pollTimeout"
  /\ g_polls' = UpTo(g_polls, 1, GpsMaxPolls)
  /\ UNCHANGED g_attempts

GpsNext ==
  /\ \/ \E w1 \in Writes : \E w2 \in Writes : GpsConnected(w1, w2)
     \/ GpsConnectFailed
     \/ GpsConnectionLost
     \/ \E active \in BOOLEAN : GpsDataReceived(active)
     \/ GpsReconnectExpired
     \/ \E w \in Writes : GpsPollExpired(w)
  /\ UNCHANGED <<decVars, msVars, trVars, czVars, chVars, ddrVars, modVars, locVars>>

\* an enabled timer expires in the end
SpecGps ==
  /\ GpsInit
  /\ [][GpsNext]_vars
  /\ WF_gpsVars(GpsReconnectExpired)
  /\ WF_gpsVars(\E w \in Writes : GpsPollExpired(w))

\* the last handler met a short write
Overflowed ==
  \E i \in 1..Len(g_cl.log) : g_cl.log[i] = "ERROR: TCP transmit buffer overflow"

(* C27: the client retries after every lost connection.  tcpDisconnected   *)
(* leaves the poll timer disabled and the reconnect timer enabled; the     *)
(* expiry of the reconnect timer leaves it disabled and makes one connect  *)
(* attempt; the two timers are never enabled together; and with timers     *)
(* that expire in the end, every tcpDisconnected, that of a failed attempt *)
(* included, is followed by a connect attempt.                             *)
C27_RetriesAfterLostConnection ==
  /\ [](~(g_cl.poll_timer /\ g_cl.reconnect_timer))
  /\ [][/\ (g_last' = "tcpDisconnected") =>
              (g_cl'.reconnect_timer /\ ~g_cl'.poll_timer /\ g_cl'.connects = 0)
        /\ (g_last' = "reconnectGpsd") =>
              (/\ ~g_cl'.reconnect_timer
               /\ g_cl'.connects = 1
               /\ g_cl'.con = "connecting")
        /\ (g_cl'.con = "connecting" /\ g_cl.con # "connecting") =>
              g_last' = "reconnectGpsd"]_vars
  /\ (g_last = "tcpDisconnected") ~> (g_last = "reconnectGpsd")

\* an attempt made by reconnectGpsd has failed and the reconnect timer is
\* armed again
C27_Witness ==
  /\ g_last = "tcpDisconnected"
  /\ g_attempts >= 2
  /\ g_cl.reconnect_timer
  /\ ~g_cl.poll_timer
  /\ g_cl.con = "closed"

(* C28: after a short write the client reconnects.  A short write in       *)
(* sendMsg, called by tcpConnected or by pollTimeout, is followed by a     *)
(* connect attempt of the client, and the poll timer does not stay enabled *)
(* on a connection that stays closed.                                      *)
C28_ShortWriteReconnects ==
  /\ Overflowed ~> (g_last = "reconnectGpsd")
  /\ []<>(~(g_cl.con = "closed" /\ g_cl.poll_timer))

\* a short write in tcpConnected has closed the connection: the poll timer
\* runs, the reconnect timer does not
C28_Stranded ==
  /\ g_last = "tcpConnected"
  /\ Overflowed
  /\ g_cl.con = "closed"
  /\ g_cl.poll_timer
  /\ ~g_cl.reconnect_timer

-----------------------------------------------------------------------------
(* LocationInfo, LocationInfo.cpp: the singleton made by initialize and    *)
(* the line buffer of onNmeaReceived.  A std::string is the sequence of    *)
(* its characters; a position in it counts from 1, and 0 is npos.          *)

\* s.find(pat)
Find(s, pat) ==
  LET hits == {i \in 1..(Len(s) - Len(pat) + 1) :
                 SubSeq(s, i, i + Len(pat) - 1) = pat}
  IN  IF hits = {} THEN 0 ELSE CHOOSE i \in hits : \A j \in hits : i <= j

\* s.erase(0, n)
Erase(s, n) == SubSeq(s, n + 1, Len(s))

\* the C string at buf: the characters before the first NUL
CStr(buf) == SubSeq(buf, 1, Find(buf, <<"NUL">>) - 1)

NoInstance == [null |-> TRUE]

\* new LocationInfo()
LocationInfoNew ==
  [prefix |-> "", mycall |-> <<>>, sinterval |-> 0, nmeadev |-> FALSE,
   nmeastream |-> <<>>]

\* has_instance()
HasInstance(instance) == instance # NoInstance

\* lines 187-193: the statistics interval, an unsigned int made by atoi.
\* A negative number wraps to one of 2^31 or more, which is above 60.
Interval(n) == IF n < 0 \/ n < 5 \/ n > 60 THEN 10 ELSE n

\* lines 146-172 of initialize: the prefix and the callsign, or the error
Callsign(value) ==
  IF Find(value, <<"E", "L", "-">>) # 0
    THEN IF Len(Erase(value, 3)) < 4
           THEN [ok |-> FALSE, prefix |-> "L", mycall |-> <<>>,
                 log |-> "ERROR: variable CALLSIGN is missing or wrong"]
           ELSE [ok |-> TRUE, prefix |-> "L", mycall |-> Erase(value, 3),
                 log |-> ""]
  ELSE IF Find(value, <<"E", "R", "-">>) # 0
    THEN IF Len(Erase(value, 3)) < 4
           THEN [ok |-> FALSE, prefix |-> "R", mycall |-> <<>>,
                 log |-> "ERROR: variable CALLSIGN is missing or wrong"]
           ELSE [ok |-> TRUE, prefix |-> "R", mycall |-> Erase(value, 3),
                 log |-> ""]
  ELSE [ok |-> FALSE, prefix |-> "", mycall |-> <<>>,
        log |-> "ERROR: variable CALLSIGN must have a prefix (ER- or EL-)"]

\* initialize(cfg, cfg_name), lines 135-207.  Of the configuration: the
\* value of CALLSIGN, whether NMEA_DEVICE is set, what parsePosition or
\* initNmeaDev (pos), parseStationHW (hw), parsePath (path) and
\* parseClients (clients) return, and the number in STATISTICS_INTERVAL.
\* InitDone is the rest of initialize once the callsign c is known.
InitDone(cfg, c) ==
  IF ~c.ok
    THEN [instance |-> [LocationInfoNew EXCEPT !.prefix = c.prefix],
          ret |-> FALSE, already |-> FALSE, log |-> c.log]
  ELSE IF cfg.pos /\ cfg.hw /\ cfg.path /\ cfg.clients
    THEN [instance |-> [prefix |-> c.prefix, mycall |-> c.mycall,
                        sinterval |-> Interval(cfg.interval),
                        nmeadev |-> cfg.nmea,
                        nmeastream |-> <<>>],
          ret |-> TRUE, already |-> FALSE, log |-> ""]
  ELSE [instance |-> NoInstance, ret |-> FALSE, already |-> FALSE, log |-> ""]

LocationInfoInitialize(instance, cfg) ==
  IF HasInstance(instance)
    THEN [instance |-> instance, ret |-> FALSE, already |-> TRUE, log |-> ""]
    ELSE InitDone(cfg, Callsign(cfg.CALLSIGN))

\* the loop of onNmeaReceived, lines 735-742: x is the buffer and the lines
\* passed to handleNmea
RECURSIVE NmeaLoop(_)
NmeaLoop(x) ==
  LET found == Find(x.nmeastream, <<"\n">>)
  IN  IF found = 0 THEN x
      ELSE NmeaLoop([nmeastream |-> Erase(x.nmeastream, found),
                     handled |-> IF found # 1
                                   THEN Append(x.handled,
                                               SubSeq(x.nmeastream, 1, found - 1))
                                   ELSE x.handled])

RECURSIVE NmeaLoop_blank(_)
NmeaLoop_blank(x) ==
  LET found == Find(x.nmeastream, <<"\n">>)
  IN  IF found = 0 THEN x
      ELSE NmeaLoop_blank([nmeastream |-> Erase(x.nmeastream, found),
                           handled |-> Append(x.handled,
                                              SubSeq(x.nmeastream, 1, found - 1))])

\* onNmeaReceived(buf, count), lines 731-743: buf is appended as a C string,
\* count is not read
OnNmeaReceived_blank(nmeastream, handled, buf) ==
  NmeaLoop_blank([nmeastream |-> nmeastream \o CStr(buf), handled |-> handled])
OnNmeaReceived(nmeastream, handled, buf) ==
  NmeaLoop([nmeastream |-> nmeastream \o CStr(buf), handled |-> handled])

-----------------------------------------------------------------------------
(* The location information service of one process: initialize is called  *)
(* with one configuration or another, and the serial device of an          *)
(* initialized service delivers the characters it read, a chunk at a time. *)

MaxChunk == 2
MaxNmea == 4

Callsigns ==
  {<<"E", "L", "-", "A", "B", "1", "C">>, <<"E", "R", "-", "A", "B", "1", "C">>,
   <<"A", "B", "1", "C", "D", "E">>, <<"E", "R", "-", "A", "B">>, <<>>}

LocConfigs ==
  [CALLSIGN : Callsigns, nmea : BOOLEAN, pos : BOOLEAN, hw : BOOLEAN,
   path : BOOLEAN, clients : BOOLEAN, interval : {-1, 30}]

\* the characters a device sends
NmeaChars == {"$", "G", "\n"}

\* the chunks a read of the device returns
Chunks ==
  UNION {[1..k -> NmeaChars] : k \in 1..MaxChunk}

LocInit ==
  /\ l_instance = NoInstance
  /\ l_last = [op |-> "", ret |-> FALSE, already |-> FALSE]
  /\ n_input = <<>>
  /\ n_handled = <<>>
  /\ DecIdle /\ MsIdle /\ TrIdle /\ CzIdle /\ ChIdle /\ DdrIdle /\ ModIdle
  /\ GpsIdle

\* LocationInfo::initialize(cfg, cfg_name)
LocInitialize(cfg) ==
  /\ \E r \in {LocationInfoInitialize(l_instance, cfg)} :
       /\ l_instance' = r.instance
       /\ l_last' = [op |-> "initialize", ret |-> r.ret, already |-> r.already]
  /\ UNCHANGED <<n_input, n_handled>>

\* the serial device emits charactersReceived(buf, count) with the chunk
\* it read, which it ends with a NUL
LocNmeaReceived(chunk) ==
  /\ HasInstance(l_instance)
  /\ l_instance.nmeadev
  /\ Len(n_input) + Len(chunk) <= MaxNmea
  /\ \E r \in {OnNmeaReceived(l_instance.nmeastream, n_handled,
                              chunk \o <<"NUL">>)} :
       /\ l_instance' = [l_instance EXCEPT !.nmeastream = r.nmeastream]
       /\ n_handled' = r.handled
  /\ n_input' = n_input \o chunk
  /\ l_last' = [op |-> "onNmeaReceived", ret |-> FALSE, already |-> FALSE]

LocNext ==
  /\ \/ \E cfg \in LocConfigs : LocInitialize(cfg)
     \/ \E chunk \in Chunks : LocNmeaReceived(chunk)
  /\ UNCHANGED <<decVars, msVars, trVars, czVars, chVars, ddrVars, modVars, gpsVars>>

SpecLoc == LocInit /\ [][LocNext]_vars

(* C29: a failed initialize leaves no instance behind.  When initialize    *)
(* has returned false and not because the service was initialized          *)
(* already, the instance pointer is null.                                  *)
C29_FailedInitNoInstance ==
  (l_last.op = "initialize" /\ ~l_last.ret /\ ~l_last.already)
     => ~HasInstance(l_instance)

\* initialize has returned false for a callsign without ER- or EL- and the
\* instance it made is still there
C29_LeftBehind ==
  /\ l_last.op = "initialize"
  /\ ~l_last.ret
  /\ ~l_last.already
  /\ HasInstance(l_instance)
  /\ l_instance.prefix = ""

\* the places of the newlines of s, the place of the newline before place
\* p (0 when there is none) and the line a newline at p ends
Breaks(s) == {i \in 1..Len(s) : s[i] = "\n"}
BreakBefore(s, p) ==
  IF \E i \in Breaks(s) : i < p
    THEN CHOOSE i \in Breaks(s) : i < p /\ \A j \in Breaks(s) : j < p => j <= i
    ELSE 0
LineAt(s, p) == SubSeq(s, BreakBefore(s, p) + 1, p - 1)

\* the non-empty newline-terminated lines of s, in order
LinesOf(s) ==
  LET ends == SelectSeq([i \in 1..Len(s) |-> i],
                        LAMBDA p : p \in Breaks(s) /\ LineAt(s, p) # <<>>)
  IN  [k \in 1..Len(ends) |-> LineAt(s, ends[k])]

(* C30: onNmeaReceived reassembles lines over any chunk boundaries.        *)
(* However the characters received so far were split into chunks, the      *)
(* lines passed to handleNmea are the non-empty newline-terminated lines   *)
(* of their concatenation, each once and in order, and the buffer is what  *)
(* follows the last newline: it holds no newline.                          *)
C30_LinesReassembled ==
  HasInstance(l_instance) =>
     /\ n_handled = LinesOf(n_input)
     /\ l_instance.nmeastream = Erase(n_input, BreakBefore(n_input, Len(n_input) + 1))
     /\ Breaks(l_instance.nmeastream) = {}

\* a line that came in two chunks has been handled, after an empty line,
\* and the start of the next line is in the buffer
C30_Witness ==
  /\ HasInstance(l_instance)
  /\ l_last.op = "onNmeaReceived"
  /\ n_input = <<"\n", "$", "\n", "G">>
  /\ n_handled = << <<"$">> >>
  /\ l_instance.nmeastream = <<"G">>

====
